---------------------------- MODULE Spec2Model ----------------------------
(***************************************************************************)
(* Model of the computer-use agent's control loop                          *)
(* (src/src/computer_use_agent/agent.py), its action gate                  *)
(* (human_loop.py) and the tools it dispatches to (tools/*.py).            *)
(*                                                                         *)
(* Python values are represented as follows.                               *)
(*   str            a TLA+ string (Len, \o, SubSeq, Head, Tail apply)      *)
(*   None / value   an option: <<>> is None, <<v>> is the value v          *)
(*   dict           a record; a key that is absent is not in its DOMAIN    *)
(*   list           a sequence                                             *)
(*   str | list     a tagged record [kind |-> "str" / "list", value |-> v] *)
(***************************************************************************)
EXTENDS Integers, Sequences, FiniteSets, TLC

\* ------------------------------------------------------------------ bounds

\* Largest max_iterations a run is started with.
MaxIterations == 2

\* Largest number of run() calls made on the one agent.
MaxRuns == 2

\* Longest descriptor the gate specification enumerates.
MaxDescLen == 4

\* Longest text of a type action the descriptor specification enumerates.
MaxTextLen == 3

\* ------------------------------------------------------- program constants

\* Config.display_width / Config.display_height defaults.
display_width == 1024
display_height == 768

\* _describe_action: a shell command is cut to this many characters.
CmdPreview == 50

\* run: a tool's output is printed cut to this many characters.
ResultPreview == 100

\* ------------------------------------------------------------ Python values

None == <<>>
Some(v) == <<v>>

\* dict.get(key, default): the value stored under key (which may be None),
\* the default only when the key is absent.
Get(d, key, default) == IF key \in DOMAIN d THEN d[key] ELSE Some(default)

\* Python truthiness of an optional string or list: neither None nor empty.
Truthy(opt) == opt # None /\ Len(opt[1]) > 0

\* str(x) / f"{x}" of an optional string.
PyStr(opt) == IF opt = None THEN "None" ELSE opt[1]

Digit(d) ==
    CASE d = 0 -> "0" [] d = 1 -> "1" [] d = 2 -> "2" [] d = 3 -> "3"
      [] d = 4 -> "4" [] d = 5 -> "5" [] d = 6 -> "6" [] d = 7 -> "7"
      [] d = 8 -> "8" [] d = 9 -> "9"

RECURSIVE DecStr(_)
DecStr(n) == IF n < 10 THEN Digit(n) ELSE DecStr(n \div 10) \o Digit(n % 10)

\* str(n) of an int.
IntStr(n) == IF n < 0 THEN "-" \o DecStr(-n) ELSE DecStr(n)

LowerChar(c) ==
    CASE c = "A" -> "a" [] c = "B" -> "b" [] c = "C" -> "c" [] c = "D" -> "d"
      [] c = "E" -> "e" [] c = "F" -> "f" [] c = "G" -> "g" [] c = "H" -> "h"
      [] c = "I" -> "i" [] c = "J" -> "j" [] c = "K" -> "k" [] c = "L" -> "l"
      [] c = "M" -> "m" [] c = "N" -> "n" [] c = "O" -> "o" [] c = "P" -> "p"
      [] c = "Q" -> "q" [] c = "R" -> "r" [] c = "S" -> "s" [] c = "T" -> "t"
      [] c = "U" -> "u" [] c = "V" -> "v" [] c = "W" -> "w" [] c = "X" -> "x"
      [] c = "Y" -> "y" [] c = "Z" -> "z" [] OTHER -> c

\* str.lower()
RECURSIVE Lower(_)
Lower(s) == IF Len(s) = 0 THEN "" ELSE LowerChar(Head(s)) \o Lower(Tail(s))

\* `kw in s` for strings.
Contains(s, kw) ==
    \E i \in 1..(Len(s) - Len(kw) + 1) : SubSeq(s, i, i + Len(kw) - 1) = kw

\* c * n for a one-character string c.
RECURSIVE Repeat(_, _)
Repeat(c, n) == IF n <= 0 THEN "" ELSE c \o Repeat(c, n - 1)

\* s[:n]
Prefix(s, n) == SubSeq(s, 1, IF Len(s) < n THEN Len(s) ELSE n)

\* --------------------------------------------------------------- ToolResult

ToolResult(output, error, base64_image) ==
    [output |-> output, error |-> error, base64_image |-> base64_image]

ResultOutput(s) == ToolResult(Some(s), None, None)
ResultError(s) == ToolResult(None, Some(s), None)
ResultImage(s) == ToolResult(None, None, Some(s))

\* An is_error that takes an empty error string for no error.
is_error_truthy(r) == Truthy(r.error)

is_error(r) == r.error # None

TextPart(s) == [type |-> "text", text |-> s]
ImagePart(data) ==
    [type |-> "image",
     source |-> [type |-> "base64", media_type |-> "image/png", data |-> data]]

\* A serialization that puts the image part before the text part.
to_api_result_image_first(r) ==
    IF is_error(r)
      THEN [kind |-> "str",
            value |-> IF Truthy(r.error) THEN r.error[1] ELSE "An error occurred"]
    ELSE IF Truthy(r.base64_image)
      THEN [kind |-> "list",
            value |-> <<ImagePart(r.base64_image[1])>>
                        \o (IF Truthy(r.output) THEN <<TextPart(r.output[1])>> ELSE <<>>)]
    ELSE IF Truthy(r.output)
      THEN [kind |-> "str", value |-> r.output[1]]
    ELSE [kind |-> "str", value |-> "Action completed successfully."]

\* A serialization without the two fixed texts: the error as it is, and the
\* output as it is when there is no image.
to_api_result_no_fallback(r) ==
    IF is_error(r) THEN [kind |-> "str", value |-> r.error[1]]
    ELSE IF Truthy(r.base64_image)
      THEN [kind |-> "list",
            value |-> (IF Truthy(r.output) THEN <<TextPart(r.output[1])>> ELSE <<>>)
                        \o <<ImagePart(r.base64_image[1])>>]
    ELSE [kind |-> "str", value |-> PyStr(r.output)]

to_api_result(r) ==
    IF is_error(r)
      THEN [kind |-> "str",
            value |-> IF Truthy(r.error) THEN r.error[1] ELSE "An error occurred"]
    ELSE IF Truthy(r.base64_image)
      THEN [kind |-> "list",
            value |-> (IF Truthy(r.output) THEN <<TextPart(r.output[1])>> ELSE <<>>)
                        \o <<ImagePart(r.base64_image[1])>>]
    ELSE IF Truthy(r.output)
      THEN [kind |-> "str", value |-> r.output[1]]
    ELSE [kind |-> "str", value |-> "Action completed successfully."]

\* ------------------------------------------------------------ tool backends

\* What the subprocess behind one tool execution does: it exits 0 ("ok"), exits
\* non-zero ("fail"), cannot be spawned so that create_subprocess_exec raises
\* ("raise"), does not finish, at least not within the shell tool's timeout
\* ("timeout"), or,
\* for a screenshot, scrot exits 0 and the following base64 read exits non-zero
\* ("read_fail").
Outcomes == {"ok", "fail", "raise", "timeout", "read_fail"}

\* Text the environment supplies: the subprocess's stderr and stdout, the
\* message of a raised exception, the screenshot's base64 data.
StdErr == "E"
StdOut == "O"
ExcText == "X"
ImageData == "PNG"

\* ------------------------------------------------------------- ComputerTool

\* Whether a Python value unpacks as `x, y = coordinate` after the guard
\* `not coordinate or len(coordinate) != 2` let it through.
BadCoordinate(coordinate) == ~Truthy(coordinate) \/ Len(coordinate[1]) # 2

\* An exception leaving a tool method (create_subprocess_exec raising), in
\* place of the ToolResult the method would have returned.
Raised == [raised |-> ExcText]

\* A call that never returns, in place of the ToolResult it would have
\* returned: _run_command awaits process.communicate() without a timeout, so
\* a subprocess that does not finish keeps the method waiting.
NeverReturns == [hangs |-> TRUE]

\* The result of a method whose one checked subprocess decides it.
Checked(outcome, failPrefix, okText) ==
    IF outcome = "raise" THEN Raised
    ELSE IF outcome = "timeout" THEN NeverReturns
    ELSE IF outcome = "fail" THEN ResultError(failPrefix \o StdErr)
    ELSE ResultOutput(okText)

computer_screenshot(outcome) ==
    IF outcome = "raise" THEN Raised
    ELSE IF outcome = "timeout" THEN NeverReturns
    ELSE IF outcome = "fail" THEN ResultError("Screenshot failed: " \o StdErr)
    ELSE IF outcome = "read_fail"
      THEN ResultError("Failed to read screenshot: " \o StdErr)
    ELSE ResultImage(ImageData)

\* A bounds test that takes the display's far edges for part of it.
InDisplayInclusive(x, y) ==
    0 <= x /\ x <= display_width /\ 0 <= y /\ y <= display_height

\* _click: 0 <= x < self.display_width and 0 <= y < self.display_height
InDisplay(x, y) == 0 <= x /\ x < display_width /\ 0 <= y /\ y < display_height

\* The actions execute hands to _click.
ClickActions ==
    {Some("left_click"), Some("right_click"), Some("middle_click"),
     Some("double_click"), Some("triple_click")}

\* The xdotool commands _click runs for a click action: none when it returns
\* before it builds one, else the one that moves the pointer and clicks, with
\* the button and the repeat count execute passes for the action.
click_commands(action, coordinate) ==
    IF BadCoordinate(coordinate) THEN <<>>
    ELSE IF ~InDisplay(coordinate[1][1], coordinate[1][2]) THEN <<>>
    ELSE <<<<"xdotool", "mousemove", IntStr(coordinate[1][1]),
             IntStr(coordinate[1][2]), "click", "--repeat",
             CASE action = Some("double_click") -> "2"
               [] action = Some("triple_click") -> "3"
               [] OTHER -> "1",
             CASE action = Some("right_click") -> "3"
               [] action = Some("middle_click") -> "2"
               [] OTHER -> "1">>>>

computer_click(coordinate, outcome) ==
    IF BadCoordinate(coordinate) THEN ResultError("Invalid coordinate format")
    ELSE LET x == coordinate[1][1]
             y == coordinate[1][2]
         IN  IF ~InDisplay(x, y)
               THEN ResultError("Coordinates (" \o IntStr(x) \o ", " \o IntStr(y)
                                \o ") outside display bounds ("
                                \o IntStr(display_width) \o "x"
                                \o IntStr(display_height) \o ")")
             ELSE Checked(outcome, "Click failed: ",
                          "Clicked at (" \o IntStr(x) \o ", " \o IntStr(y) \o ")")

computer_drag(start_coordinate, end_coordinate, outcome) ==
    IF BadCoordinate(start_coordinate)
      THEN ResultError("Invalid start coordinate format")
    ELSE IF BadCoordinate(end_coordinate)
      THEN ResultError("Invalid end coordinate format")
    ELSE Checked(outcome, "Drag failed: ",
                 "Dragged from (" \o IntStr(start_coordinate[1][1]) \o ", "
                 \o IntStr(start_coordinate[1][2]) \o ") to ("
                 \o IntStr(end_coordinate[1][1]) \o ", "
                 \o IntStr(end_coordinate[1][2]) \o ")")

computer_type(text, outcome) ==
    IF ~Truthy(text) THEN ResultError("No text provided to type")
    ELSE Checked(outcome, "Type failed: ",
                 "Typed " \o IntStr(Len(text[1])) \o " characters")

computer_key(key, outcome) ==
    IF ~Truthy(key) THEN ResultError("No key provided")
    ELSE Checked(outcome, "Key press failed: ", "Pressed key: " \o key[1])

computer_mouse_move(coordinate, outcome) ==
    IF BadCoordinate(coordinate) THEN ResultError("Invalid coordinate format")
    ELSE Checked(outcome, "Mouse move failed: ",
                 "Moved mouse to (" \o IntStr(coordinate[1][1]) \o ", "
                 \o IntStr(coordinate[1][2]) \o ")")

computer_scroll(direction, amount, outcome) ==
    Checked(outcome, "Scroll failed: ",
            "Scrolled " \o PyStr(direction) \o " by " \o IntStr(amount[1]))

computer_wait(duration) ==
    ResultOutput("Waited " \o IntStr(duration[1]) \o " seconds")

computer_mouse_button(action, outcome) ==
    Checked(outcome, "Mouse " \o action \o " failed: ",
            "Mouse button 1 " \o action)

computer_hold_key(key, duration, outcome) ==
    Checked(outcome, "Hold key failed: ",
            "Held key " \o PyStr(key) \o " for " \o IntStr(duration[1]) \o "s")

\* kwargs.get(key): None when the key is absent.
GetOrNone(kwargs, key) == IF key \in DOMAIN kwargs THEN kwargs[key] ELSE None

\* The method ComputerTool.execute selects for the action.
computer_dispatch(kwargs, action, outcome) ==
    CASE action = Some("screenshot") -> computer_screenshot(outcome)
      [] action \in ClickActions ->
            computer_click(GetOrNone(kwargs, "coordinate"), outcome)
      [] action = Some("left_click_drag") ->
            computer_drag(GetOrNone(kwargs, "start_coordinate"),
                          GetOrNone(kwargs, "end_coordinate"), outcome)
      [] action = Some("type") -> computer_type(Get(kwargs, "text", ""), outcome)
      [] action = Some("key") -> computer_key(Get(kwargs, "key", ""), outcome)
      [] action = Some("mouse_move") ->
            computer_mouse_move(GetOrNone(kwargs, "coordinate"), outcome)
      [] action = Some("scroll") ->
            computer_scroll(Get(kwargs, "scroll_direction", "down"),
                            Get(kwargs, "scroll_amount", 3), outcome)
      [] action = Some("wait") -> computer_wait(Get(kwargs, "duration", 1))
      [] action = Some("left_mouse_down") ->
            computer_mouse_button("mousedown", outcome)
      [] action = Some("left_mouse_up") ->
            computer_mouse_button("mouseup", outcome)
      [] action = Some("hold_key") ->
            computer_hold_key(Get(kwargs, "key", ""), Get(kwargs, "duration", 1),
                              outcome)
      [] OTHER -> ResultError("Unknown action: " \o PyStr(action))

\* ComputerTool.execute(**kwargs): every exception of the method becomes an
\* error result.
computer_execute(kwargs, outcome) ==
    LET action == Get(kwargs, "action", "screenshot")
        r == computer_dispatch(kwargs, action, outcome)
    IN  IF r = Raised
          THEN ResultError("Error executing " \o PyStr(action) \o ": " \o ExcText)
        ELSE r

\* ----------------------------------------------------------------- BashTool

\* BashTool.timeout, as f"{self.timeout}" prints the float 120.0.
bash_timeout == "120.0"

\* BashTool._run_command with its caller's two except clauses.
bash_run_command(command, outcome) ==
    CASE outcome = "timeout" ->
            ResultError("Command timed out after " \o bash_timeout \o "s")
      [] outcome = "raise" -> ResultError("Error executing command: " \o ExcText)
      [] outcome = "fail" ->
            ResultError("Command failed with exit code 1\n" \o "stderr: " \o StdErr)
      [] OTHER -> ResultOutput(StdOut)

\* BashTool.execute(**kwargs)
bash_execute(kwargs, outcome) ==
    LET command == Get(kwargs, "command", "")
        restart == Get(kwargs, "restart", FALSE)
    IN  IF restart = Some(TRUE)
          THEN ResultOutput("Shell restarted (stateless mode)")
        ELSE IF ~Truthy(command) THEN ResultError("No command provided")
        ELSE bash_run_command(command[1], outcome)

\* ---------------------------------------------------------- HumanLoopHandler

\* HumanLoopMode
Modes == {"always_confirm", "sensitive_only", "minimal"}

sensitive_keywords ==
    <<"login", "sign in", "signin", "password", "credential",
      "payment", "purchase", "buy", "checkout", "credit card",
      "bank", "transfer", "submit", "confirm", "delete",
      "remove", "unsubscribe", "cancel">>

\* any(keyword in action_lower for keyword in sensitive_keywords)
AnyKeywordIn(action_lower) ==
    \E k \in 1..Len(sensitive_keywords) : Contains(action_lower, sensitive_keywords[k])

\* The gate without the lower-casing of the description.
should_prompt_case_sensitive(m, action_description) ==
    IF m = "always_confirm" THEN TRUE
    ELSE IF m = "minimal" THEN FALSE
    ELSE AnyKeywordIn(action_description)

should_prompt_for_action(m, action_description) ==
    IF m = "always_confirm" THEN TRUE
    ELSE IF m = "minimal" THEN FALSE
    ELSE AnyKeywordIn(Lower(action_description))

\* ------------------------------------------------------- ComputerUseAgent

\* A registry that holds the credential tool as well.
tools_with_credential == <<"computer", "bash", "credential">>

\* self.tools, by name, in registration order.
tools == <<"computer", "bash">>

\* A lookup that finds a tool whatever the name.
get_tool_by_any_name(name) == Some(name)

\* _get_tool_by_name: the first registered tool of that name, or None.
get_tool_by_name(name) ==
    IF \E i \in 1..Len(tools) : tools[i] = name THEN Some(name) ELSE None

\* An exception leaving _describe_action.
DescribeRaised(kind) == [raised |-> kind]

describe_left_click(tool_input) ==
    LET coord == Get(tool_input, "coordinate", <<0, 0>>)
    IN  IF coord = None THEN DescribeRaised("TypeError")
        ELSE IF Len(coord[1]) < 2 THEN DescribeRaised("IndexError")
        ELSE [desc |-> "Click at position (" \o IntStr(coord[1][1]) \o ", "
                        \o IntStr(coord[1][2]) \o ")"]

\* A descriptor that shows the typed text.
describe_type_unmasked(tool_input) ==
    LET text == Get(tool_input, "text", "")
    IN  IF text = None THEN DescribeRaised("TypeError")
        ELSE IF Len(text[1]) > 0 THEN [desc |-> "Type text: " \o text[1]]
        ELSE [desc |-> "Type text"]

describe_type(tool_input) ==
    LET text == Get(tool_input, "text", "")
    IN  IF text = None THEN DescribeRaised("TypeError")
        ELSE IF Len(text[1]) > 0
          THEN [desc |-> "Type text: " \o Repeat("*", Len(text[1]))]
        ELSE [desc |-> "Type text"]

\* A descriptor that cuts the command one character late.
describe_bash_late(tool_input) ==
    LET cmd == Get(tool_input, "command", "")
    IN  IF cmd = None THEN DescribeRaised("TypeError")
        ELSE IF Len(cmd[1]) > CmdPreview
          THEN [desc |-> "Run command: " \o Prefix(cmd[1], CmdPreview + 1) \o "..."]
        ELSE [desc |-> "Run command: " \o cmd[1]]

\* A descriptor that shows the whole command.
describe_bash_whole(tool_input) ==
    LET cmd == Get(tool_input, "command", "")
    IN  IF cmd = None THEN DescribeRaised("TypeError")
        ELSE [desc |-> "Run command: " \o cmd[1]]

describe_bash(tool_input) ==
    LET cmd == Get(tool_input, "command", "")
    IN  IF cmd = None THEN DescribeRaised("TypeError")
        ELSE IF Len(cmd[1]) > CmdPreview
          THEN [desc |-> "Run command: " \o Prefix(cmd[1], CmdPreview) \o "..."]
        ELSE [desc |-> "Run command: " \o cmd[1]]

\* _describe_action: [desc |-> the description], or the exception it raises.
describe_action(tool_name, tool_input) ==
    IF tool_name = "computer"
      THEN LET action == Get(tool_input, "action", "unknown")
           IN  CASE action = Some("screenshot") -> [desc |-> "Take a screenshot"]
                 [] action = Some("left_click") -> describe_left_click(tool_input)
                 [] action = Some("type") -> describe_type(tool_input)
                 [] action = Some("key") ->
                      [desc |-> "Press key: "
                                 \o PyStr(Get(tool_input, "key", "unknown"))]
                 [] action = Some("scroll") ->
                      [desc |-> "Scroll "
                                 \o PyStr(Get(tool_input, "scroll_direction", "down"))]
                 [] OTHER -> [desc |-> "Computer action: " \o PyStr(action)]
    ELSE IF tool_name = "bash" THEN describe_bash(tool_input)
    ELSE [desc |-> "Execute " \o tool_name]

\* tool.execute(**tool_input) of the registered tool of that name.
tool_execute(tool_name, tool_input, outcome) ==
    IF tool_name = "computer" THEN computer_execute(tool_input, outcome)
    ELSE bash_execute(tool_input, outcome)

\* The outcomes the tool's backend has in a run: a subprocess of the desktop
\* tool finishes, one of the shell tool finishes or runs into the timeout;
\* only a screenshot reads a file back.
BackendOutcomes(tool_name) ==
    IF tool_name = "computer" THEN {"ok", "fail", "raise", "read_fail"}
    ELSE {"ok", "fail", "raise", "timeout"}

\* --------------------------------------------------------- the model's replies

Text(t) == [type |-> "text", text |-> t]
Thinking(t) == [type |-> "thinking", thinking |-> t]
ToolUse(name, input) == [type |-> "tool_use", id |-> "", name |-> name, input |-> input]

Computer(input) == ToolUse("computer", input)
Bash(input) == ToolUse("bash", input)

Reply(stop_reason, content) == [stop_reason |-> stop_reason, content |-> content]

\* Tool calls with well-formed input.
Screenshot == Computer([action |-> Some("screenshot")])
ClickAt(x, y) == Computer([action |-> Some("left_click"), coordinate |-> Some(<<x, y>>)])
TypeText(t) == Computer([action |-> Some("type"), text |-> Some(t)])
PressKey(k) == Computer([action |-> Some("key"), key |-> Some(k)])
RunCommand(c) == Bash([command |-> Some(c)])
RestartShell == Bash([restart |-> Some(TRUE)])

\* Tool calls with bad parameters: JSON null, or a list that is too short.
ClickNull == Computer([action |-> Some("left_click"), coordinate |-> None])
ClickShort == Computer([action |-> Some("left_click"), coordinate |-> Some(<<5>>)])
ClickNoCoordinate == Computer([action |-> Some("left_click")])
TypeNull == Computer([action |-> Some("type"), text |-> None])
RunNull == Bash([command |-> None])

\* A call to a tool the agent does not register.
Credential == ToolUse("credential", [credential_type |-> Some("password")])

\* The replies the model API gives in this model: every stop_reason the loop
\* tells apart, with and without text, reasoning and tool calls.
ModelReplies ==
    { Reply("end_turn", <<Text("Done: "), Thinking("hm"), Text("ok")>>),
      Reply("end_turn", <<Text("Bye"), RunCommand("ls")>>),
      Reply("max_tokens", <<Text("cut")>>),
      Reply("tool_use", <<Text("Look"), Screenshot, RestartShell>>),
      Reply("tool_use", <<PressKey("Delete")>>),
      Reply("tool_use", <<Credential, RunCommand("ls")>>),
      Reply("tool_use", <<TypeText("pw")>>),
      Reply("tool_use", <<ClickAt(3, 4)>>),
      Reply("tool_use", <<ClickNoCoordinate>>),
      Reply("tool_use", <<RunCommand("ls"), ClickNull>>),
      Reply("tool_use", <<ClickShort>>),
      Reply("tool_use", <<TypeNull>>),
      Reply("tool_use", <<RunNull>>) }

\* The replies in which the model keeps to the API's contract: a reply that
\* stops with end_turn holds no tool call.
ContractReplies ==
    { r \in ModelReplies :
        r.stop_reason = "end_turn" =>
            \A i \in 1..Len(r.content) : r.content[i].type # "tool_use" }

\* The API gives every tool_use block of a response its own id.
ToolUseId(turn, i) == "toolu_" \o IntStr(turn) \o "_" \o IntStr(i)

WithIds(content, turn) ==
    [i \in 1..Len(content) |->
        IF content[i].type = "tool_use"
          THEN [content[i] EXCEPT !.id = ToolUseId(turn, i)]
        ELSE content[i]]

\* The task of the n-th run.
TaskOf(n) == "task " \o IntStr(n)

\* ------------------------------------------------------------ console output

\* What console.print and the handler's show_* methods write is kept as the
\* text that reaches the terminal, one entry per call, without rich's style
\* tags and blank lines.

\* repr(s) of a str: single quotes unless s holds a single quote and no
\* double quote; the enclosing quote and the backslash are escaped.
RECURSIVE ReprEscape(_, _)
ReprEscape(s, quote) ==
    IF Len(s) = 0 THEN ""
    ELSE (IF Head(s) = quote \/ Head(s) = "\\" THEN "\\" \o Head(s) ELSE Head(s))
            \o ReprEscape(Tail(s), quote)

ReprStr(s) ==
    LET quote == IF Contains(s, "'") /\ ~Contains(s, "\"") THEN "\"" ELSE "'"
    IN  quote \o ReprEscape(s, quote) \o quote

\* repr of a list of ints.
RECURSIVE ReprInts(_)
ReprInts(xs) ==
    IF Len(xs) = 0 THEN ""
    ELSE IntStr(Head(xs)) \o (IF Len(xs) > 1 THEN ", " ELSE "") \o ReprInts(Tail(xs))

\* The keys a tool input can hold, in the order the model's JSON lists them,
\* which is the order of the dict.
InputKeys ==
    <<"action", "coordinate", "start_coordinate", "end_coordinate", "text", "key",
      "scroll_direction", "scroll_amount", "duration", "command", "restart",
      "credential_type", "service_name", "custom_message">>

\* repr of the value stored under a key: the JSON type of a value goes with
\* its key.
ReprValue(key, value) ==
    IF value = None THEN "None"
    ELSE IF key \in {"coordinate", "start_coordinate", "end_coordinate"}
      THEN "[" \o ReprInts(value[1]) \o "]"
    ELSE IF key \in {"scroll_amount", "duration"} THEN IntStr(value[1])
    ELSE IF key = "restart" THEN (IF value[1] THEN "True" ELSE "False")
    ELSE ReprStr(value[1])

\* The items of repr(tool_input) from the k-th key of InputKeys on.
RECURSIVE ReprItems(_, _, _)
ReprItems(d, k, first) ==
    IF k > Len(InputKeys) THEN ""
    ELSE IF InputKeys[k] \notin DOMAIN d THEN ReprItems(d, k + 1, first)
    ELSE (IF first THEN "" ELSE ", ")
            \o ReprStr(InputKeys[k]) \o ": " \o ReprValue(InputKeys[k], d[InputKeys[k]])
            \o ReprItems(d, k + 1, FALSE)

\* f"{tool_input}": repr of the dict.
ReprDict(d) == "{" \o ReprItems(d, 1, TRUE) \o "}"

\* HumanLoopHandler.show_status / show_error
show_status(message) == message
show_error(message) == "Error: " \o message

\* run's banner of an iteration.
IterationBanner(i, n) == "--- Iteration " \o IntStr(i + 1) \o "/" \o IntStr(n) \o " ---"

\* run shows the reply: the text of a block that has one, the reasoning of a
\* block that has that (show_thinking: a panel with title and message).
RECURSIVE ShowContent(_)
ShowContent(content) ==
    IF content = <<>> THEN <<>>
    ELSE (IF "text" \in DOMAIN Head(content)
            THEN <<"Claude: " \o Head(content).text>>
          ELSE IF "thinking" \in DOMAIN Head(content)
            THEN <<"Claude's Reasoning", Head(content).thinking>>
          ELSE <<>>)
            \o ShowContent(Tail(content))

\* run announces a tool_use block before it executes it.
AnnounceTool(block) == <<"Tool: " \o block.name, "Input: " \o ReprDict(block.input)>>

\* run shows the status of a result.
ResultStatus(r) ==
    IF is_error(r) THEN <<show_error("Tool error: " \o PyStr(r.error))>>
    ELSE IF Truthy(r.output)
      THEN <<"Result: " \o (IF Len(r.output[1]) > ResultPreview
                               THEN Prefix(r.output[1], ResultPreview) \o "..."
                             ELSE r.output[1])>>
    ELSE IF Truthy(r.base64_image) THEN <<"Screenshot captured">>
    ELSE <<>>

\* prompt_confirmation: the panel with the description, then the question.
ConfirmationPanel(action_description) ==
    <<"Action Confirmation", action_description, "Proceed with this action?">>

\* ------------------------------------------------------------------- state

VARIABLES
    mode,               \* config.human_loop_mode
    messages,           \* self.messages, the conversation history
    pc,                 \* where run() is: idle, call, block, screenshot, prompt,
                        \* execute, returned, raised
    max_iterations,     \* run's parameter
    iteration,          \* the loop variable of run
    assistant_content,  \* response.content of the turn being processed
    block_index,        \* position of the for loop over assistant_content
    tool_results,       \* the turn's tool_results list
    action_desc,        \* _execute_tool's action_desc
    screenshot,         \* _execute_tool's context screenshot
    returned,           \* run's return value, None while it has not returned
    raised,             \* the exception that left run, None if none did
    runs,               \* calls of run() so far
    trace,              \* what the current run has done so far, in order
    console,            \* what the current run has written to the terminal
    call_args,          \* a call made outside run: the operation, its arguments
    call_result,        \* and its return value, None while it has not returned
    solve_calls         \* the solve_* operations the call has invoked, in order

\* The variables of a call made outside run.
callVars == <<call_args, call_result, solve_calls>>

vars == <<mode, messages, pc, max_iterations, iteration, assistant_content,
          block_index, tool_results, action_desc, screenshot, returned, raised,
          runs, trace, console, callVars>>

Sentinel == "Task incomplete: maximum iterations reached"

Init ==
    /\ mode \in Modes
    /\ messages = <<>>
    /\ pc = "idle"
    /\ max_iterations = 0
    /\ iteration = 0
    /\ assistant_content = <<>>
    /\ block_index = 0
    /\ tool_results = <<>>
    /\ action_desc = ""
    /\ screenshot = None
    /\ returned = None
    /\ raised = None
    /\ runs = 0
    /\ trace = <<>>
    /\ console = <<>>
    /\ call_args = None
    /\ call_result = None
    /\ solve_calls = <<>>

\* The block the for loop is at.
Block == assistant_content[block_index]

\* The tool_result block run builds from a ToolResult.
ToolResultBlock(tool_use_id, result) ==
    [type |-> "tool_result", tool_use_id |-> tool_use_id,
     content |-> to_api_result(result), is_error |-> is_error(result)]

\* Results collected at the front of the list.
PrependResult(results, block) == <<block>> \o results

\* tool_results.append(...)
AppendResult(results, block) == Append(results, block)

\* The for loop moves on to the block after this one.
NextIndex(i) == i + 1

\* A final text that keeps only the last block's text: `=` for `+=`.
RECURSIVE final_text_last(_)
final_text_last(content) ==
    IF content = <<>> THEN ""
    ELSE LET rest == final_text_last(Tail(content))
         IN  IF rest # "" THEN rest
             ELSE IF "text" \in DOMAIN Head(content) THEN Head(content).text
             ELSE ""

\* final_text: the text of every block that has one, in order.
RECURSIVE final_text(_)
final_text(content) ==
    IF content = <<>> THEN ""
    ELSE (IF "text" \in DOMAIN Head(content) THEN Head(content).text ELSE "")
            \o final_text(Tail(content))

\* An entry of the trace: what happened, in which iteration, at which block.
Event(ev) == [ev |-> ev, turn |-> iteration, block |-> block_index]

\* The model answered, with this stop_reason.
ModelCallEvent(stop_reason) ==
    [ev |-> "model_call", turn |-> iteration, block |-> 0, stop |-> stop_reason]

\* A tool's execute was called with these keyword arguments: by the gate for
\* its context screenshot, or by the dispatch `tool.execute(**tool_input)`.
CallEvent(ev, tool_name, kwargs) ==
    [ev |-> ev, turn |-> iteration, block |-> block_index,
     tool |-> tool_name, input |-> kwargs]

\* _execute_tool returns `result` for the current block: run appends its
\* tool_result block and the for loop goes on.
Finish(result) ==
    /\ tool_results' = AppendResult(tool_results, ToolResultBlock(Block.id, result))
    /\ block_index' = NextIndex(block_index)
    /\ action_desc' = ""
    /\ screenshot' = None
    /\ pc' = "block"

\* A run that adds its task to the history the agent has: `append` for `=`.
RunKeepsHistory(n) ==
    /\ pc \in {"idle", "returned", "raised"}
    /\ runs < MaxRuns
    /\ runs' = runs + 1
    /\ messages' = Append(messages, [role |-> "user", content |-> TaskOf(runs + 1)])
    /\ max_iterations' = n
    /\ iteration' = 0
    /\ assistant_content' = <<>>
    /\ block_index' = 0
    /\ tool_results' = <<>>
    /\ action_desc' = ""
    /\ screenshot' = None
    /\ raised' = None
    /\ trace' = <<>>
    /\ IF n = 0
         THEN pc' = "returned" /\ returned' = Some(Sentinel)
       ELSE pc' = "call" /\ returned' = None
    /\ UNCHANGED <<callVars, mode>>
    /\ console' = <<show_status("Starting task: " \o TaskOf(runs + 1))>>
                    \o (IF n = 0 THEN <<show_error("Maximum iterations reached")>>
                        ELSE <<>>)

\* run(task, max_iterations) is called: the history is seeded; with no
\* iteration to make the loop is over at once.
Run(n) ==
    /\ pc \in {"idle", "returned", "raised"}
    /\ runs < MaxRuns
    /\ runs' = runs + 1
    /\ messages' = <<[role |-> "user", content |-> TaskOf(runs + 1)]>>
    /\ max_iterations' = n
    /\ iteration' = 0
    /\ assistant_content' = <<>>
    /\ block_index' = 0
    /\ tool_results' = <<>>
    /\ action_desc' = ""
    /\ screenshot' = None
    /\ raised' = None
    /\ trace' = <<>>
    /\ IF n = 0
         THEN pc' = "returned" /\ returned' = Some(Sentinel)
       ELSE pc' = "call" /\ returned' = None
    /\ UNCHANGED <<callVars, mode>>
    /\ console' = <<show_status("Starting task: " \o TaskOf(runs + 1))>>
                    \o (IF n = 0 THEN <<show_error("Maximum iterations reached")>>
                        ELSE <<>>)

\* An API error that ends the iteration, not the run: `continue` for `return`.
ApiErrorContinues ==
    /\ pc = "call"
    /\ trace' = Append(trace, Event("api_error"))
    /\ iteration' = iteration + 1
    /\ IF iteration + 1 = max_iterations
         THEN pc' = "returned" /\ returned' = Some(Sentinel)
       ELSE pc' = "call" /\ UNCHANGED returned
    /\ UNCHANGED <<callVars, mode, messages, max_iterations, assistant_content,
                   block_index, tool_results, action_desc, screenshot, raised, runs>>
    /\ console' = console \o <<IterationBanner(iteration, max_iterations),
                                show_error("API error: " \o ExcText)>>

\* The model call raises anthropic.APIError.
ApiError ==
    /\ pc = "call"
    /\ trace' = Append(trace, Event("api_error"))
    /\ returned' = Some("API error: " \o ExcText)
    /\ pc' = "returned"
    /\ UNCHANGED <<callVars, mode, messages, max_iterations, iteration, assistant_content,
                   block_index, tool_results, action_desc, screenshot, raised, runs>>
    /\ console' = console \o <<IterationBanner(iteration, max_iterations),
                                show_error("API error: " \o ExcText)>>

\* The model call returns `reply`.
ModelResponse(reply) ==
    /\ pc = "call"
    /\ LET content == WithIds(reply.content, iteration)
       IN  /\ messages' = Append(messages, [role |-> "assistant", content |-> content])
           /\ IF reply.stop_reason = "end_turn"
                THEN /\ returned' = Some(final_text(content))
                     /\ pc' = "returned"
                     /\ UNCHANGED <<assistant_content, block_index>>
              ELSE /\ assistant_content' = content
                   /\ block_index' = 1
                   /\ pc' = "block"
                   /\ UNCHANGED returned
    /\ tool_results' = <<>>
    /\ trace' = Append(trace, ModelCallEvent(reply.stop_reason))
    /\ UNCHANGED <<callVars, mode, max_iterations, iteration, action_desc, screenshot,
                   raised, runs>>
    /\ console' = console \o <<IterationBanner(iteration, max_iterations)>>
                            \o ShowContent(reply.content)

\* The for loop passes a block that is no tool_use block.
SkipBlock ==
    /\ pc = "block"
    /\ block_index <= Len(assistant_content)
    /\ Block.type # "tool_use"
    /\ block_index' = NextIndex(block_index)
    /\ UNCHANGED <<callVars, console, mode, messages, pc, max_iterations, iteration, assistant_content,
                   tool_results, action_desc, screenshot, returned, raised, runs,
                   trace>>

\* _execute_tool finds no tool of the block's name.
UnknownTool ==
    /\ pc = "block"
    /\ block_index <= Len(assistant_content)
    /\ Block.type = "tool_use"
    /\ get_tool_by_name(Block.name) = None
    /\ Finish(ResultError("Unknown tool: " \o Block.name))
    /\ trace' = Append(trace, Event("unknown"))
    /\ UNCHANGED <<callVars, mode, messages, max_iterations, iteration, assistant_content,
                   returned, raised, runs>>
    /\ console' = console \o AnnounceTool(Block)
                    \o ResultStatus(ResultError("Unknown tool: " \o Block.name))

\* _describe_action raises: the exception leaves _execute_tool and run.
DescribeFails ==
    /\ pc = "block"
    /\ block_index <= Len(assistant_content)
    /\ Block.type = "tool_use"
    /\ get_tool_by_name(Block.name) # None
    /\ LET d == describe_action(Block.name, Block.input)
       IN  /\ "raised" \in DOMAIN d
           /\ raised' = Some(d.raised)
    /\ pc' = "raised"
    /\ trace' = Append(trace, Event("describe_raised"))
    /\ UNCHANGED <<callVars, mode, messages, max_iterations, iteration, assistant_content,
                   block_index, tool_results, action_desc, screenshot, returned,
                   runs>>
    /\ console' = console \o AnnounceTool(Block)

\* A gate that is asked before the tool is looked up.
GateBeforeLookup ==
    /\ pc = "block"
    /\ block_index <= Len(assistant_content)
    /\ Block.type = "tool_use"
    /\ LET d == describe_action(Block.name, Block.input)
       IN  /\ "desc" \in DOMAIN d
           /\ action_desc' = d.desc
           /\ LET prompt == should_prompt_for_action(mode, d.desc)
              IN  /\ pc' = IF prompt THEN "screenshot" ELSE "execute"
                  /\ trace' = Append(trace, Event(IF prompt THEN "gate_prompt"
                                                  ELSE "gate_pass"))
    /\ UNCHANGED <<callVars, mode, messages, max_iterations, iteration, assistant_content,
                   block_index, tool_results, screenshot, returned, raised, runs>>
    /\ console' = console \o AnnounceTool(Block)

\* A gate that shows its prompt without the context screenshot.
GateWithoutContext ==
    /\ pc = "block"
    /\ block_index <= Len(assistant_content)
    /\ Block.type = "tool_use"
    /\ get_tool_by_name(Block.name) # None
    /\ LET d == describe_action(Block.name, Block.input)
       IN  /\ "desc" \in DOMAIN d
           /\ action_desc' = d.desc
           /\ LET prompt == should_prompt_for_action(mode, d.desc)
              IN  /\ pc' = IF prompt THEN "prompt" ELSE "execute"
                  /\ trace' = Append(trace, Event(IF prompt THEN "gate_prompt"
                                                  ELSE "gate_pass"))
    /\ UNCHANGED <<callVars, mode, messages, max_iterations, iteration, assistant_content,
                   block_index, tool_results, screenshot, returned, raised, runs>>
    /\ console' = console \o AnnounceTool(Block)

\* _execute_tool describes the action and asks the gate.
Gate ==
    /\ pc = "block"
    /\ block_index <= Len(assistant_content)
    /\ Block.type = "tool_use"
    /\ get_tool_by_name(Block.name) # None
    /\ LET d == describe_action(Block.name, Block.input)
       IN  /\ "desc" \in DOMAIN d
           /\ action_desc' = d.desc
           /\ LET prompt == should_prompt_for_action(mode, d.desc)
              IN  /\ pc' = IF prompt THEN "screenshot" ELSE "execute"
                  /\ trace' = Append(trace, Event(IF prompt THEN "gate_prompt"
                                                  ELSE "gate_pass"))
    /\ UNCHANGED <<callVars, mode, messages, max_iterations, iteration, assistant_content,
                   block_index, tool_results, screenshot, returned, raised, runs>>
    /\ console' = console \o AnnounceTool(Block)

\* The gate's context screenshot: computer_tool.execute(action="screenshot").
ContextScreenshot(outcome) ==
    /\ pc = "screenshot"
    /\ screenshot' =
          computer_execute([action |-> Some("screenshot")], outcome).base64_image
    /\ pc' = "prompt"
    /\ trace' = Append(trace, CallEvent("context_screenshot", "computer",
                                         [action |-> Some("screenshot")]))
    /\ UNCHANGED <<callVars, console, mode, messages, max_iterations, iteration, assistant_content,
                   block_index, tool_results, action_desc, returned, raised, runs>>

\* A gate that goes on to the tool whatever the human answers.
ConfirmIgnored(confirmed) ==
    /\ pc = "prompt"
    /\ pc' = "execute"
    /\ screenshot' = None
    /\ trace' = Append(trace, Event(IF confirmed THEN "confirmed" ELSE "declined"))
    /\ UNCHANGED <<callVars, mode, messages, max_iterations, iteration, assistant_content,
                   block_index, tool_results, action_desc, returned, raised, runs>>
    /\ console' = console \o ConfirmationPanel(action_desc)

\* prompt_confirmation: the human answers yes or no.
Confirm(confirmed) ==
    /\ pc = "prompt"
    /\ IF confirmed
         THEN /\ pc' = "execute"
              /\ screenshot' = None
              /\ UNCHANGED <<tool_results, block_index, action_desc>>
       ELSE Finish(ResultError("Action cancelled by user"))
    /\ trace' = Append(trace, Event(IF confirmed THEN "confirmed" ELSE "declined"))
    /\ UNCHANGED <<callVars, mode, messages, max_iterations, iteration, assistant_content,
                   returned, raised, runs>>
    /\ console' = console \o ConfirmationPanel(action_desc)
                    \o (IF confirmed THEN <<>>
                        ELSE ResultStatus(ResultError("Action cancelled by user")))

\* prompt_confirmation: the human interrupts the prompt. Confirm.ask raises
\* KeyboardInterrupt, which nothing between the prompt and run's caller catches.
ConfirmInterrupted ==
    /\ pc = "prompt"
    /\ raised' = Some("KeyboardInterrupt")
    /\ pc' = "raised"
    /\ trace' = Append(trace, Event("interrupted"))
    /\ UNCHANGED <<callVars, mode, messages, max_iterations, iteration, assistant_content,
                   block_index, tool_results, action_desc, screenshot, returned,
                   runs>>
    /\ console' = console \o ConfirmationPanel(action_desc)

\* The process gets SIGINT while run is in progress. In the model call, which
\* is a blocking call made by the coroutine itself, Python's default handler
\* raises KeyboardInterrupt there; no except clause of run catches it.
\* (Under the handler asyncio.run installs from Python 3.11 on, the interrupt
\* has its effect at the next await instead, which is the case that follows.)
\* While run awaits a tool's subprocess the coroutine is suspended: the task
\* is cancelled and the await raises CancelledError, which the tools'
\* `except Exception` clauses do not catch either.
Interrupt ==
    /\ pc \in {"call", "screenshot", "execute"}
    /\ raised' = Some(IF pc = "call" THEN "KeyboardInterrupt" ELSE "CancelledError")
    /\ pc' = "raised"
    /\ trace' = Append(trace, Event("sigint"))
    /\ console' = console \o (IF pc = "call"
                                THEN <<IterationBanner(iteration, max_iterations)>>
                              ELSE <<>>)
    /\ UNCHANGED <<callVars, mode, messages, max_iterations, iteration,
                   assistant_content, block_index, tool_results, action_desc,
                   screenshot, returned, runs>>

\* tool.execute(**tool_input)
ExecuteTool(outcome) ==
    /\ pc = "execute"
    /\ outcome \in BackendOutcomes(Block.name)
    /\ Finish(tool_execute(Block.name, Block.input, outcome))
    /\ trace' = Append(trace, CallEvent("execute", Block.name, Block.input))
    /\ UNCHANGED <<callVars, mode, messages, max_iterations, iteration, assistant_content,
                   returned, raised, runs>>
    /\ console' = console
                    \o ResultStatus(tool_execute(Block.name, Block.input, outcome))

\* An end of turn that puts the results in the place of the assistant turn.
EndOfTurnOverwrites ==
    /\ pc = "block"
    /\ block_index > Len(assistant_content)
    /\ messages' = IF tool_results # <<>>
                     THEN Append(SubSeq(messages, 1, Len(messages) - 1),
                                 [role |-> "user", content |-> tool_results])
                   ELSE messages
    /\ iteration' = iteration + 1
    /\ IF iteration + 1 = max_iterations
         THEN pc' = "returned" /\ returned' = Some(Sentinel)
       ELSE pc' = "call" /\ UNCHANGED returned
    /\ assistant_content' = <<>>
    /\ block_index' = 0
    /\ tool_results' = <<>>
    /\ UNCHANGED <<callVars, mode, max_iterations, action_desc, screenshot, raised, runs,
                   trace>>
    /\ console' = console
                    \o (IF iteration + 1 = max_iterations
                          THEN <<show_error("Maximum iterations reached")>>
                        ELSE <<>>)

\* The for loop over the blocks is over: the results, if any, become a user
\* message, and the iteration ends.
EndOfTurn ==
    /\ pc = "block"
    /\ block_index > Len(assistant_content)
    /\ messages' = IF tool_results # <<>>
                     THEN Append(messages, [role |-> "user", content |-> tool_results])
                   ELSE messages
    /\ iteration' = iteration + 1
    /\ IF iteration + 1 = max_iterations
         THEN pc' = "returned" /\ returned' = Some(Sentinel)
       ELSE pc' = "call" /\ UNCHANGED returned
    /\ assistant_content' = <<>>
    /\ block_index' = 0
    /\ tool_results' = <<>>
    /\ UNCHANGED <<callVars, mode, max_iterations, action_desc, screenshot, raised, runs,
                   trace>>
    /\ console' = console
                    \o (IF iteration + 1 = max_iterations
                          THEN <<show_error("Maximum iterations reached")>>
                        ELSE <<>>)

\* The steps of a run once the model has been called.
Steps ==
    \/ SkipBlock
    \/ UnknownTool
    \/ DescribeFails
    \/ Gate
    \/ \E outcome \in BackendOutcomes("computer") : ContextScreenshot(outcome)
    \/ \E confirmed \in BOOLEAN : Confirm(confirmed)
    \/ ConfirmInterrupted
    \/ \E outcome \in Outcomes : ExecuteTool(outcome)
    \/ EndOfTurn

Next ==
    \/ \E n \in 0..MaxIterations : Run(n)
    \/ ApiError
    \/ \E reply \in ModelReplies : ModelResponse(reply)
    \/ Steps
    \/ Interrupt

Spec == Init /\ [][Next]_vars

\* run_agent, and asyncio.run around it, once run has returned `result` or
\* raised `exc`: what is printed for the user, and the exception that leaves
\* main, None if none does. `except KeyboardInterrupt` reports a
\* cancellation; `except Exception` reports an error and raises it again;
\* CancelledError is neither, and once the cancelled task is done
\* asyncio.run raises KeyboardInterrupt, which main does not catch.
run_agent(result, exc) ==
    IF exc = None
      THEN [printed |-> <<"Task Complete", result[1]>>, raised |-> None]
    ELSE IF exc = Some("KeyboardInterrupt")
      THEN [printed |-> <<"Task cancelled by user">>, raised |-> None]
    ELSE IF exc = Some("CancelledError")
      THEN [printed |-> <<>>, raised |-> Some("KeyboardInterrupt")]
    ELSE [printed |-> <<"Error: " \o exc[1]>>, raised |-> exc]

\* The same agent with a model that keeps to the API's contract.
NextContract ==
    \/ \E n \in 0..MaxIterations : Run(n)
    \/ ApiError
    \/ \E reply \in ContractReplies : ModelResponse(reply)
    \/ Steps
    \/ Interrupt

SpecContract == Init /\ [][NextContract]_vars

\* ------------------------------------------------- the gate on its own

\* Every string of at most n characters of the alphabet.
RECURSIVE StringsUpTo(_, _)
StringsUpTo(alphabet, n) ==
    IF n = 0 THEN {""}
    ELSE LET shorter == StringsUpTo(alphabet, n - 1)
         IN  shorter \cup {s \o c : s \in shorter, c \in alphabet}

\* Letters that spell the keyword "buy" in either case, and a separator.
GateAlphabet == {"b", "u", "y", "B", "U", " "}

\* Descriptions with and without a keyword, in mixed case, and near misses.
SampleDescriptions ==
    { "Press key: Delete", "Press key: Return", "Run command: rm -rf /tmp/x",
      "Run command: git REMOVE", "Computer action: Submit", "Take a screenshot",
      "Click at position (3, 4)", "Type text: ****", "LOGIN", "Sign In", "sign-in",
      "SignIn", "my PassWord", "pass word", "Credentials", "PAYMENT due",
      "pay ment", "Purchase", "checkOUT", "check out", "Credit Card", "creditcard",
      "river BANK", "Transfer", "trans fer", "conFIRM", "Unsubscribe", "CANCEL",
      "Scroll down", "" }

GateDescriptions == StringsUpTo(GateAlphabet, MaxDescLen) \cup SampleDescriptions

\* A handler of any mode about to be asked about any description.
InitGate ==
    /\ mode \in Modes
    /\ action_desc \in GateDescriptions
    /\ pc = "gate"
    /\ messages = <<>>
    /\ max_iterations = 0
    /\ iteration = 0
    /\ assistant_content = <<>>
    /\ block_index = 0
    /\ tool_results = <<>>
    /\ screenshot = None
    /\ returned = None
    /\ raised = None
    /\ runs = 0
    /\ trace = <<>>
    /\ console = <<>>
    /\ call_args = None
    /\ call_result = None
    /\ solve_calls = <<>>

\* should_prompt_for_action(action_desc) is called; as in _execute_tool, a
\* true answer leads to the context screenshot, a false one to the tool.
AskGate ==
    /\ pc = "gate"
    /\ pc' = IF should_prompt_for_action(mode, action_desc) THEN "screenshot"
             ELSE "execute"
    /\ UNCHANGED <<callVars, console, mode, messages, max_iterations, iteration, assistant_content,
                   block_index, tool_results, action_desc, screenshot, returned,
                   raised, runs, trace>>

NextGate == AskGate

SpecGate == InitGate /\ [][NextGate]_vars

\* ------------------------------------------- calls made outside run

\* The agent's own variables.
agentVars == <<mode, messages, pc, max_iterations, iteration, assistant_content,
               block_index, tool_results, action_desc, screenshot, returned,
               raised, runs, trace, console>>

\* An agent as constructed with the default mode, on which run is not called.
AtRest ==
    /\ mode = "sensitive_only"
    /\ messages = <<>>
    /\ pc = "idle"
    /\ max_iterations = 0
    /\ iteration = 0
    /\ assistant_content = <<>>
    /\ block_index = 0
    /\ tool_results = <<>>
    /\ action_desc = ""
    /\ screenshot = None
    /\ returned = None
    /\ raised = None
    /\ runs = 0
    /\ trace = <<>>
    /\ console = <<>>

\* The call op(args) has been made and has not returned.
Pending(op) == call_args # None /\ call_args[1].op = op /\ call_result = None

\* ------------------------------------------- _describe_action on its own

\* Characters of a typed text: letters, one of them of the label "Type text",
\* a space, and the mask character itself.
TextAlphabet == {"p", "T", " ", "*"}

\* Inputs of a type action: every text of at most MaxTextLen characters, a
\* null text, no text.
TypeInputs ==
    {TypeText(t).input : t \in StringsUpTo(TextAlphabet, MaxTextLen)}
        \cup {TypeNull.input, [action |-> Some("type")]}

\* How far past the preview the sample commands go.
MaxOver == 4

\* A command line of CmdPreview characters, and characters that occur
\* neither in it nor in the descriptor's label to go on with.
CommandHead == Repeat("ls -la /0 ", CmdPreview \div 10)
CommandTail == "XYZWVQKJ"

\* Inputs of the shell tool: no command, a null one, and commands of 0 and 1
\* characters and of every length from just under the preview to MaxOver
\* past it.
BashInputs ==
    {RunCommand(Prefix(CommandHead \o CommandTail, n)).input :
        n \in {0, 1} \cup ((CmdPreview - 2)..(CmdPreview + MaxOver))}
        \cup {RunNull.input, RestartShell.input}

InitDescribe ==
    /\ AtRest
    /\ call_args \in {Some([op |-> "_describe_action", tool_name |-> "computer",
                            tool_input |-> i]) : i \in TypeInputs}
                      \cup {Some([op |-> "_describe_action", tool_name |-> "bash",
                                  tool_input |-> i]) : i \in BashInputs}
    /\ call_result = None
    /\ solve_calls = <<>>

\* _describe_action(tool_name, tool_input) returns or raises.
DescribeCall ==
    /\ Pending("_describe_action")
    /\ call_result' = Some(describe_action(call_args[1].tool_name,
                                           call_args[1].tool_input))
    /\ UNCHANGED <<agentVars, call_args, solve_calls>>

NextDescribe == DescribeCall

SpecDescribe == InitDescribe /\ [][NextDescribe]_vars

\* ------------------------------------------- _execute_tool, call by call

\* Where in a command the sample keyword starts: at the front, and from
\* where it still ends within the preview to where it starts after it.
KeywordOffsets == {0} \cup ((CmdPreview - 8)..(CmdPreview + 2))

\* Shell commands with a sensitive keyword at each of these places, in
\* either case, with and without more text after it; and commands without
\* one, of the preview's length and longer.
GatedCommands ==
    {Prefix(CommandHead, k) \o kw \o rest :
        k \in KeywordOffsets, kw \in {"delete", "DELETE", "sign in"},
        rest \in {"", " -f"}}
        \cup {CommandHead \o rest : rest \in {"", "X", CommandTail}}
        \cup {"ls"}

\* Coordinates inside the display, on its edges and outside it.
SampleCoordinates == {-5, 0, 640, display_height, display_width}

\* Desktop calls whose descriptor is fixed or masked, with and without a
\* sensitive word among their parameters.
PlainBlocks ==
    {Screenshot,
     Computer([action |-> Some("screenshot"), text |-> Some("delete password")]),
     Computer([action |-> Some("left_click"), coordinate |-> Some(<<3, 4>>),
               text |-> Some("confirm purchase")]),
     TypeText("delete"), TypeText("my Password"), TypeText("buy"),
     PressKey("Delete"), PressKey("Return")}
        \cup {ClickAt(x, y) : x \in SampleCoordinates, y \in SampleCoordinates}
        \cup {Computer(i) : i \in TypeInputs}

\* Names of no registered tool, and what such a call may carry.
UnknownNames == {"credential", "Computer", "BASH", "", "str_replace_editor", "delete"}

UnknownInputs ==
    {[credential_type |-> Some("password"), service_name |-> Some("bank login")],
     [command |-> Some("delete")],
     [action |-> Some("screenshot")]}

\* The tool calls a reply of the model may hold.
DispatchBlocks ==
    {RunCommand(c) : c \in GatedCommands}
        \cup PlainBlocks
        \cup {ToolUse(n, i) : n \in UnknownNames, i \in UnknownInputs}
        \cup {ClickNull, ClickShort, RunNull, RestartShell}

\* run(task, max_iterations=1) has called the model, which answered with a
\* text and one tool call, and is about to go through the reply's blocks.
InitDispatch ==
    /\ mode \in Modes
    /\ runs = 1
    /\ max_iterations = 1
    /\ iteration = 0
    /\ block_index = 1
    /\ pc = "block"
    /\ \E b \in DispatchBlocks :
          LET content == WithIds(<<Text("Next"), b>>, 0)
          IN  /\ assistant_content = content
              /\ messages = <<[role |-> "user", content |-> TaskOf(1)],
                              [role |-> "assistant", content |-> content]>>
              /\ console = <<show_status("Starting task: " \o TaskOf(1)),
                             IterationBanner(0, 1)>> \o ShowContent(content)
    /\ trace = <<ModelCallEvent("tool_use")>>
    /\ tool_results = <<>>
    /\ action_desc = ""
    /\ screenshot = None
    /\ returned = None
    /\ raised = None
    /\ call_args = None
    /\ call_result = None
    /\ solve_calls = <<>>

NextDispatch == Steps \/ Interrupt

SpecDispatch == InitDispatch /\ [][NextDispatch]_vars

\* ------------------------------------------- to_api_result on its own

\* The values a field of a ToolResult can have: None, the empty string, text.
FieldValues == {None, Some(""), Some("a"), Some("bc")}

InitSerialize ==
    /\ AtRest
    /\ call_args \in {Some([op |-> op, result |-> ToolResult(o, e, i)]) :
                         op \in {"to_api_result", "tool_result_block"},
                         o \in FieldValues, e \in FieldValues, i \in FieldValues}
    /\ call_result = None
    /\ solve_calls = <<>>

\* result.to_api_result() returns.
SerializeCall ==
    /\ Pending("to_api_result")
    /\ call_result' = Some(to_api_result(call_args[1].result))
    /\ UNCHANGED <<agentVars, call_args, solve_calls>>

\* run builds the tool_result block of a result.
ToolResultBlockCall ==
    /\ Pending("tool_result_block")
    /\ call_result' = Some(ToolResultBlock("toolu_1", call_args[1].result))
    /\ UNCHANGED <<agentVars, call_args, solve_calls>>

NextSerialize == SerializeCall \/ ToolResultBlockCall

SpecSerialize == InitSerialize /\ [][NextSerialize]_vars

\* ------------------------------------------------------------ CaptchaSolver

\* CaptchaResult
CaptchaResult(success, solution, error, captcha_type) ==
    [success |-> success, solution |-> solution, error |-> error,
     captcha_type |-> captcha_type]

\* What client.solve_captcha does with a request: it raises, returns a falsy
\* value, returns a value without the attribute the operation reads, or
\* returns one with it: a solution, the empty string, or None.
VendorOutcomes == {"raise", "none", "no_field", "solved", "empty", "null"}

\* The solution the vendor returns.
Token == "TOK"

\* The body every solve_* operation shares once its request is built: the
\* vendor call inside try/except, then the test of the attribute. `label`
\* is the text of the operation's except clause. The return value goes with
\* the request sent to the vendor.
SolveWith(request, captcha_type, label, vendor) ==
    [request |-> Some(request),
     result |->
        CASE vendor = "raise" ->
                CaptchaResult(FALSE, None,
                              Some(label \o " solving failed: " \o ExcText),
                              Some(captcha_type))
          [] vendor = "solved" ->
                CaptchaResult(TRUE, Some(Token), None, Some(captcha_type))
          [] vendor = "empty" ->
                CaptchaResult(TRUE, Some(""), None, Some(captcha_type))
          [] vendor = "null" ->
                CaptchaResult(TRUE, None, None, Some(captcha_type))
          [] OTHER ->
                CaptchaResult(FALSE, None, Some("No solution returned from CapMonster"),
                              Some(captcha_type))]

\* The Amazon operation returns str(result.solution): of None, "None".
solve_amazon_waf(website_url, website_key, vendor) ==
    LET r == SolveWith([type |-> "AmazonWafRequest", websiteUrl |-> website_url,
                        websiteKey |-> IF Truthy(website_key) THEN website_key[1]
                                       ELSE ""],
                       "amazon_waf", "Amazon WAF CAPTCHA", vendor)
    IN  IF vendor = "null" THEN [r EXCEPT !.result.solution = Some("None")] ELSE r

solve_recaptcha_v2(website_url, website_key, vendor) ==
    SolveWith([type |-> "RecaptchaV2Request", websiteUrl |-> website_url,
               websiteKey |-> website_key],
              "recaptcha_v2", "reCAPTCHA v2", vendor)

solve_recaptcha_v3(website_url, website_key, vendor) ==
    SolveWith([type |-> "RecaptchaV3ProxylessRequest", websiteUrl |-> website_url,
               websiteKey |-> website_key],
              "recaptcha_v3", "reCAPTCHA v3", vendor)

\* A Turnstile operation whose vendor call is outside the try block: the
\* vendor's exception leaves the operation.
solve_turnstile_unguarded(website_url, website_key, vendor) ==
    IF vendor = "raise"
      THEN [request |-> Some([type |-> "TurnstileRequest", websiteUrl |-> website_url,
                              websiteKey |-> website_key]),
            result |-> Raised]
    ELSE SolveWith([type |-> "TurnstileRequest", websiteUrl |-> website_url,
                    websiteKey |-> website_key],
                   "turnstile", "Turnstile", vendor)

solve_turnstile(website_url, website_key, vendor) ==
    SolveWith([type |-> "TurnstileRequest", websiteUrl |-> website_url,
               websiteKey |-> website_key],
              "turnstile", "Turnstile", vendor)

\* What reading the file at image_path gives: its base64 text, the empty text
\* of an empty file, or FileNotFoundError.
FileOutcomes == {"read", "empty", "missing"}

solve_image_captcha(image_path, image_base64, file, vendor) ==
    LET from_file == Truthy(image_path) /\ ~Truthy(image_base64)
        image == IF from_file
                   THEN (IF file = "read" THEN Some(ImageData) ELSE Some(""))
                 ELSE image_base64
    IN  IF from_file /\ file = "missing"
          THEN [request |-> None,
                result |-> CaptchaResult(FALSE, None,
                              Some("Image CAPTCHA solving failed: " \o ExcText),
                              Some("image_to_text"))]
        ELSE IF ~Truthy(image)
          THEN [request |-> None,
                result |-> CaptchaResult(FALSE, None, Some("No image provided"),
                                         Some("image_to_text"))]
        ELSE SolveWith([type |-> "ImageToTextRequest", body |-> image[1]],
                       "image_to_text", "Image CAPTCHA", vendor)

\* The i-th character of a string.
CharAt(s, i) == SubSeq(s, i, i)

\* s[i:i+len(t)] == t
StartsAt(s, i, t) == i + Len(t) - 1 <= Len(s) /\ SubSeq(s, i, i + Len(t) - 1) = t

\* The regex class [a-zA-Z0-9_-]
KeyChars ==
    {"a", "b", "c", "d", "e", "f", "g", "h", "i", "j", "k", "l", "m", "n", "o", "p",
     "q", "r", "s", "t", "u", "v", "w", "x", "y", "z", "A", "B", "C", "D", "E", "F",
     "G", "H", "I", "J", "K", "L", "M", "N", "O", "P", "Q", "R", "S", "T", "U", "V",
     "W", "X", "Y", "Z", "0", "1", "2", "3", "4", "5", "6", "7", "8", "9", "_", "-"}

\* The regex class ["\']
Quotes == {"\"", "'"}

\* Where the longest run of key characters from position i ends: the first
\* position after it.
RECURSIVE KeyRunEnd(_, _)
KeyRunEnd(s, i) ==
    IF i <= Len(s) /\ CharAt(s, i) \in KeyChars THEN KeyRunEnd(s, i + 1) ELSE i

\* The same for the class [^"\'].
RECURSIVE NonQuoteRunEnd(_, _)
NonQuoteRunEnd(s, i) ==
    IF i <= Len(s) /\ CharAt(s, i) \notin Quotes THEN NonQuoteRunEnd(s, i + 1) ELSE i

\* The least element of a non-empty set of positions: re.search returns the
\* leftmost match.
Leftmost(positions) == CHOOSE i \in positions : \A j \in positions : i <= j

\* A search for the render parameter in the lower-cased page.
render_key_lower(page_html) ==
    LET html_lower == Lower(page_html)
        starts == {i \in 1..Len(html_lower) :
                     /\ StartsAt(html_lower, i, "render=")
                     /\ KeyRunEnd(html_lower, i + 7) > i + 7}
    IN  IF starts = {} THEN None
        ELSE LET i == Leftmost(starts)
             IN  Some(SubSeq(html_lower, i + 7, KeyRunEnd(html_lower, i + 7) - 1))

\* re.search(r'render=([a-zA-Z0-9_-]+)', page_html): group 1, or None.
render_key(page_html) ==
    LET starts == {i \in 1..Len(page_html) :
                     /\ StartsAt(page_html, i, "render=")
                     /\ KeyRunEnd(page_html, i + 7) > i + 7}
    IN  IF starts = {} THEN None
        ELSE LET i == Leftmost(starts)
             IN  Some(SubSeq(page_html, i + 7, KeyRunEnd(page_html, i + 7) - 1))

\* re.search(r'data-sitekey=["\']([^"\']+)["\']', page_html): group 1, or None.
\* The greedy run of non-quote characters must be non-empty and be followed
\* by a quote.
site_key(page_html) ==
    LET starts == {i \in 1..Len(page_html) :
                     /\ StartsAt(page_html, i, "data-sitekey=")
                     /\ i + 13 <= Len(page_html)
                     /\ CharAt(page_html, i + 13) \in Quotes
                     /\ NonQuoteRunEnd(page_html, i + 14) > i + 14
                     /\ NonQuoteRunEnd(page_html, i + 14) <= Len(page_html)}
    IN  IF starts = {} THEN None
        ELSE LET i == Leftmost(starts)
             IN  Some(SubSeq(page_html, i + 14, NonQuoteRunEnd(page_html, i + 14) - 1))

\* A solve_* operation invoked by detect_and_solve, with what it returned.
Invoked(op, returned_by) ==
    [result |-> returned_by.result,
     calls |-> <<[op |-> op, request |-> returned_by.request,
                  result |-> returned_by.result]>>]

\* Last steps that try the image operation with or without a screenshot.
detect_by_image_always(screenshot_base64, vendor) ==
    Invoked("solve_image_captcha",
            solve_image_captcha(None, screenshot_base64, "read", vendor))

\* The last steps of detect_and_solve, once no typed check has returned.
detect_by_image(screenshot_base64, vendor) ==
    IF Truthy(screenshot_base64)
      THEN Invoked("solve_image_captcha",
                   solve_image_captcha(None, screenshot_base64, "read", vendor))
    ELSE [result |-> CaptchaResult(FALSE, None, Some("Could not detect CAPTCHA type"),
                                   None),
          calls |-> <<>>]

\* detect_and_solve from the Turnstile check on.
detect_from_turnstile(website_url, page_html, screenshot_base64, vendor) ==
    LET html_lower == Lower(page_html)
    IN  IF (Contains(html_lower, "turnstile") \/ Contains(html_lower, "cf-turnstile"))
           /\ site_key(page_html) # None
          THEN Invoked("solve_turnstile",
                       solve_turnstile(website_url, site_key(page_html)[1], vendor))
        ELSE detect_by_image(screenshot_base64, vendor)

\* A chain that asks for Turnstile before reCAPTCHA v2.
detect_turnstile_first(website_url, page_html, screenshot_base64, vendor) ==
    LET html_lower == Lower(page_html)
    IN  IF (Contains(html_lower, "turnstile") \/ Contains(html_lower, "cf-turnstile"))
           /\ site_key(page_html) # None
          THEN Invoked("solve_turnstile",
                       solve_turnstile(website_url, site_key(page_html)[1], vendor))
        ELSE IF (Contains(html_lower, "g-recaptcha") \/ Contains(html_lower, "recaptcha"))
                /\ site_key(page_html) # None
          THEN Invoked("solve_recaptcha_v2",
                       solve_recaptcha_v2(website_url, site_key(page_html)[1], vendor))
        ELSE detect_by_image(screenshot_base64, vendor)

\* detect_and_solve from the reCAPTCHA v2 check on.
detect_from_v2(website_url, page_html, screenshot_base64, vendor) ==
    LET html_lower == Lower(page_html)
    IN  IF (Contains(html_lower, "g-recaptcha") \/ Contains(html_lower, "recaptcha"))
           /\ site_key(page_html) # None
          THEN Invoked("solve_recaptcha_v2",
                       solve_recaptcha_v2(website_url, site_key(page_html)[1], vendor))
        ELSE detect_from_turnstile(website_url, page_html, screenshot_base64, vendor)

\* A reCAPTCHA v3 check that gives up when it finds no site key.
detect_v3_or_fail(website_url, page_html, screenshot_base64, vendor) ==
    IF Contains(Lower(page_html), "recaptcha/api.js?render=")
      THEN (IF render_key(page_html) # None
              THEN Invoked("solve_recaptcha_v3",
                           solve_recaptcha_v3(website_url, render_key(page_html)[1],
                                              vendor))
            ELSE [result |-> CaptchaResult(FALSE, None,
                                           Some("Could not detect CAPTCHA type"), None),
                  calls |-> <<>>])
    ELSE detect_from_v2(website_url, page_html, screenshot_base64, vendor)

\* detect_and_solve from the reCAPTCHA v3 check on.
detect_from_v3(website_url, page_html, screenshot_base64, vendor) ==
    IF Contains(Lower(page_html), "recaptcha/api.js?render=")
       /\ render_key(page_html) # None
      THEN Invoked("solve_recaptcha_v3",
                   solve_recaptcha_v3(website_url, render_key(page_html)[1], vendor))
    ELSE detect_from_v2(website_url, page_html, screenshot_base64, vendor)

\* detect_and_solve: its return value and the solve_* operations it invoked.
detect_and_solve(website_url, page_html, screenshot_base64, vendor) ==
    IF Truthy(page_html)
      THEN (IF Contains(Lower(page_html[1]), "awswaf")
               \/ Contains(Lower(website_url), "amazon")
              THEN Invoked("solve_amazon_waf",
                           solve_amazon_waf(website_url, None, vendor))
            ELSE detect_from_v3(website_url, page_html[1], screenshot_base64, vendor))
    ELSE detect_by_image(screenshot_base64, vendor)

\* The pages detect_and_solve is asked about: no page, an empty one, pages
\* with the marker of one CAPTCHA type or of several, with a site key that
\* the regular expressions find, and with one they do not find (missing,
\* empty, unquoted, unterminated, or spelled in capitals).
Pages ==
    { None, Some(""), Some("<p>hello</p>"),
      Some("<script src='/AwsWaf.js'>"),
      Some("awswaf g-recaptcha data-sitekey='k2'"),
      Some("recaptcha/api.js?render=K3_-x"),
      Some("recaptcha/api.js?render="),
      Some("Recaptcha/Api.js?RENDER=K3 data-sitekey=\"k2\""),
      Some("recaptcha/api.js?render=K3 cf-turnstile data-sitekey='kT'"),
      Some("recaptcha/api.js?render=&x cf-turnstile data-sitekey='kT'"),
      Some("<div class=\"g-recaptcha\" data-sitekey=\"k2\">"),
      Some("G-RECAPTCHA DATA-SITEKEY='k2'"),
      Some("g-recaptcha cf-turnstile data-sitekey='k2\""),
      Some("g-recaptcha cf-turnstile"),
      Some("cf-turnstile g-recaptcha data-sitekey=k2"),
      Some("<div class='cf-turnstile' data-sitekey='kT'>"),
      Some("Turnstile data-sitekey='' data-sitekey=\"kT\""),
      Some("cf-turnstile data-sitekey='kT"),
      Some("data-sitekey='k0'") }

\* The URLs of the pages: with and without "amazon", in the host or the path.
Urls ==
    { "https://example.com/login", "https://www.amazon.com/ap/signin",
      "https://WWW.AMAZON.DE/", "https://example.com/amazon" }

\* The screenshots: none, an empty one, one with data.
Screenshots == {None, Some(""), Some(ImageData)}

\* The calls of detect_and_solve.
DetectCalls ==
    {[op |-> "detect_and_solve", website_url |-> u, page_html |-> h,
      screenshot_base64 |-> sh] : u \in Urls, h \in Pages, sh \in Screenshots}

\* The solve_* operations.
SolveOps ==
    {"solve_amazon_waf", "solve_recaptcha_v2", "solve_recaptcha_v3",
     "solve_turnstile", "solve_image_captcha"}

\* The direct calls of the solve_* operations.
SolveCalls ==
    {[op |-> "solve_amazon_waf", website_url |-> u, website_key |-> k] :
        u \in Urls, k \in {None, Some("kA")}}
    \cup {[op |-> o, website_url |-> u, website_key |-> "k2"] :
            o \in {"solve_recaptcha_v2", "solve_recaptcha_v3", "solve_turnstile"},
            u \in Urls}
    \cup {[op |-> "solve_image_captcha", image_path |-> pth, image_base64 |-> b] :
            pth \in {None, Some("/tmp/c.png")}, b \in Screenshots}

InitCaptcha ==
    /\ AtRest
    /\ call_args \in {Some(c) : c \in DetectCalls \cup SolveCalls}
    /\ call_result = None
    /\ solve_calls = <<>>

\* detect_and_solve(website_url, page_html, screenshot_base64) runs and
\* returns; the vendor answers the one request it may get.
DetectCall(vendor) ==
    /\ Pending("detect_and_solve")
    /\ LET d == detect_and_solve(call_args[1].website_url, call_args[1].page_html,
                                 call_args[1].screenshot_base64, vendor)
       IN  /\ call_result' = Some(d.result)
           /\ solve_calls' = d.calls
    /\ UNCHANGED <<agentVars, call_args>>

\* The solve_* operation of the call, applied to the call's arguments.
solve(c, file, vendor) ==
    CASE c.op = "solve_amazon_waf" ->
            solve_amazon_waf(c.website_url, c.website_key, vendor)
      [] c.op = "solve_recaptcha_v2" ->
            solve_recaptcha_v2(c.website_url, c.website_key, vendor)
      [] c.op = "solve_recaptcha_v3" ->
            solve_recaptcha_v3(c.website_url, c.website_key, vendor)
      [] c.op = "solve_turnstile" ->
            solve_turnstile(c.website_url, c.website_key, vendor)
      [] c.op = "solve_image_captcha" ->
            solve_image_captcha(c.image_path, c.image_base64, file, vendor)

\* A solve_* operation is called on its own and returns.
SolveCall(file, vendor) ==
    /\ call_args # None
    /\ call_args[1].op \in SolveOps
    /\ call_result = None
    /\ LET r == solve(call_args[1], file, vendor)
       IN  /\ call_result' = Some(r.result)
           /\ solve_calls' = <<[op |-> call_args[1].op, request |-> r.request,
                                result |-> r.result]>>
    /\ UNCHANGED <<agentVars, call_args>>

NextCaptcha ==
    \/ \E vendor \in VendorOutcomes : DetectCall(vendor)
    \/ \E file \in FileOutcomes, vendor \in VendorOutcomes : SolveCall(file, vendor)

SpecCaptcha == InitCaptcha /\ [][NextCaptcha]_vars

\* ------------------------------------------- the handler's input prompts

\* HumanInput
HumanInput(value, cancelled) == [value |-> value, cancelled |-> cancelled]

\* What the human does at an input prompt: enters a line, which may be empty,
\* interrupts the prompt (KeyboardInterrupt), or the input is at its end
\* (EOFError).
Answers == {[line |-> ""], [line |-> "s3"], [interrupt |-> TRUE], [eof |-> TRUE]}

\* console.print(...) as an entry of the trace.
Printed(text) == [ev |-> "print", text |-> text]

\* What every prompt_* method does: it prints a panel, then reads inside
\* try/except KeyboardInterrupt. `reader` is the function that reads the
\* line, Prompt.ask (which echoes) or getpass.getpass (which does not). The
\* return value (a HumanInput, or the exception the read raised) goes with
\* what the method did.
Ask(prompt, reader, title, message, answer) ==
    [result |-> IF "line" \in DOMAIN answer THEN HumanInput(answer.line, FALSE)
                ELSE IF "interrupt" \in DOMAIN answer THEN HumanInput("", TRUE)
                ELSE [raised |-> "EOFError"],
     events |-> <<Printed(title), Printed(message),
                  [ev |-> "read", prompt |-> prompt, reader |-> reader,
                   answer |-> answer]>>]

prompt_username(service_name, answer) ==
    Ask("prompt_username", "Prompt.ask", "Login Required",
        "Please enter your username/email for " \o service_name, answer)

prompt_password(service_name, answer) ==
    Ask("prompt_password", "getpass.getpass", "Password Required",
        "Please enter your password for " \o service_name, answer)

prompt_2fa_code(method, answer) ==
    Ask("prompt_2fa_code", "Prompt.ask", "Two-Factor Authentication",
        "A verification code was sent to " \o method
            \o ".\nPlease enter the code to continue.", answer)

prompt_custom(message, title, is_password, answer) ==
    Ask("prompt_custom", IF is_password THEN "getpass.getpass" ELSE "Prompt.ask",
        title, message, answer)

\* What _display_image does with the image: it saves it to a temporary file,
\* or decoding or writing it raises, which the method catches.
ViewerOutcomes == {"saved", "failed"}

\* prompt_captcha: `captcha_image_base64 or screenshot_base64` is displayed
\* if it is truthy, then the solution is asked for.
prompt_captcha(screenshot_base64, captcha_image_base64, viewer, answer) ==
    LET image_to_show == IF Truthy(captcha_image_base64) THEN captcha_image_base64
                         ELSE screenshot_base64
        ask == Ask("prompt_captcha", "Prompt.ask", "CAPTCHA Required",
                   "Please solve the CAPTCHA shown above/in the viewer.\n"
                       \o "If automated solving failed, enter the solution manually.",
                   answer)
    IN  [result |-> ask.result,
         events |->
            (IF Truthy(image_to_show)
               THEN <<[ev |-> "display_image", image |-> image_to_show[1],
                       title |-> "CAPTCHA Image", viewer |-> viewer]>>
             ELSE <<>>)
            \o ask.events]

\* HumanLoopHandler.show_success
show_success(message) == message

\* ------------------------------------ the agent's handlers, CredentialTool

\* detect_and_solve as _handle_captcha calls it, as an entry of the trace.
Attempted(website_url, page_html, screenshot_base64, d) ==
    [ev |-> "detect_and_solve", website_url |-> website_url, page_html |-> page_html,
     screenshot_base64 |-> screenshot_base64, result |-> d.result, calls |-> d.calls]

\* A CAPTCHA flow that asks the human before it tries the solver.
handle_captcha_manual_first(captcha_solver, website_url, page_html, screenshot_base64, vendor, viewer, answer) ==
    LET d == detect_and_solve(website_url, page_html, screenshot_base64, vendor)
        manual == prompt_captcha(screenshot_base64, None, viewer, answer)
    IN  [result |-> IF "raised" \in DOMAIN manual.result THEN manual.result
                    ELSE IF manual.result.cancelled THEN None
                    ELSE Some(manual.result.value),
         events |-> <<Printed(show_status("Falling back to manual CAPTCHA solving..."))>>
                      \o manual.events
                      \o (IF captcha_solver
                            THEN <<Attempted(website_url, page_html,
                                             screenshot_base64, d)>>
                          ELSE <<>>)]

\* A CAPTCHA flow that takes every successful result for a solution.
handle_captcha_success_only(captcha_solver, website_url, page_html, screenshot_base64, vendor, viewer, answer) ==
    LET d == detect_and_solve(website_url, page_html, screenshot_base64, vendor)
        solved == captcha_solver /\ d.result.success
        auto == IF ~captcha_solver THEN <<>>
                ELSE <<Printed(show_status("Attempting automated CAPTCHA solving...")),
                       Attempted(website_url, page_html, screenshot_base64, d),
                       IF solved
                         THEN Printed(show_success("CAPTCHA solved automatically!"))
                       ELSE Printed(show_error("Automated solving failed: "
                                               \o PyStr(d.result.error)))>>
        manual == prompt_captcha(screenshot_base64, None, viewer, answer)
    IN  IF solved THEN [result |-> d.result.solution, events |-> auto]
        ELSE [result |-> IF "raised" \in DOMAIN manual.result THEN manual.result
                         ELSE IF manual.result.cancelled THEN None
                         ELSE Some(manual.result.value),
              events |-> auto
                  \o <<Printed(show_status("Falling back to manual CAPTCHA solving..."))>>
                  \o manual.events]

\* _handle_captcha: the solver, if the agent has one, then the manual prompt
\* unless the solver gave a solution. The value returned (a solution, None,
\* or the exception that left the method) goes with what the method did.
handle_captcha(captcha_solver, website_url, page_html, screenshot_base64, vendor, viewer, answer) ==
    LET d == detect_and_solve(website_url, page_html, screenshot_base64, vendor)
        solved == captcha_solver /\ d.result.success /\ Truthy(d.result.solution)
        auto == IF ~captcha_solver THEN <<>>
                ELSE <<Printed(show_status("Attempting automated CAPTCHA solving...")),
                       Attempted(website_url, page_html, screenshot_base64, d),
                       IF solved
                         THEN Printed(show_success("CAPTCHA solved automatically!"))
                       ELSE Printed(show_error("Automated solving failed: "
                                               \o PyStr(d.result.error)))>>
        manual == prompt_captcha(screenshot_base64, None, viewer, answer)
    IN  IF solved THEN [result |-> d.result.solution, events |-> auto]
        ELSE [result |-> IF "raised" \in DOMAIN manual.result THEN manual.result
                         ELSE IF manual.result.cancelled THEN None
                         ELSE Some(manual.result.value),
              events |-> auto
                  \o <<Printed(show_status("Falling back to manual CAPTCHA solving..."))>>
                  \o manual.events]

\* A handler that returns the value of a cancelled prompt as if it were given.
handle_credential_request_value(credential_type, service_name, answer) ==
    LET asked ==
          CASE credential_type = "username" -> prompt_username(service_name, answer)
            [] credential_type = "password" -> prompt_password(service_name, answer)
            [] credential_type = "2fa" -> prompt_2fa_code("your device", answer)
            [] OTHER ->
                 prompt_custom("Please enter " \o credential_type \o " for "
                                   \o service_name,
                               "Input Required", FALSE, answer)
    IN  [result |-> IF "raised" \in DOMAIN asked.result THEN asked.result
                    ELSE Some(asked.result.value),
         events |-> asked.events]

\* _handle_credential_request: the value entered, None if the prompt was
\* cancelled, or the exception that left the method.
handle_credential_request(credential_type, service_name, answer) ==
    LET asked ==
          CASE credential_type = "username" -> prompt_username(service_name, answer)
            [] credential_type = "password" -> prompt_password(service_name, answer)
            [] credential_type = "2fa" -> prompt_2fa_code("your device", answer)
            [] OTHER ->
                 prompt_custom("Please enter " \o credential_type \o " for "
                                   \o service_name,
                               "Input Required", FALSE, answer)
    IN  [result |-> IF "raised" \in DOMAIN asked.result THEN asked.result
                    ELSE IF asked.result.cancelled THEN None
                    ELSE Some(asked.result.value),
         events |-> asked.events]

\* CredentialTool.execute(**kwargs): a ToolResult, with what the call did.
credential_execute(kwargs, answer) ==
    LET credential_type == Get(kwargs, "credential_type", "username")
        service_name == PyStr(Get(kwargs, "service_name", "the service"))
        custom_message == Get(kwargs, "custom_message", "")
        asked ==
          CASE credential_type = Some("username") -> prompt_username(service_name, answer)
            [] credential_type = Some("password") -> prompt_password(service_name, answer)
            [] credential_type = Some("2fa") -> prompt_2fa_code("your device", answer)
            [] OTHER ->
                 prompt_custom(IF Truthy(custom_message) THEN custom_message[1]
                               ELSE "Please enter the requested information for "
                                       \o service_name,
                               "Input Required", FALSE, answer)
    IN  IF credential_type \notin {Some("username"), Some("password"), Some("2fa"),
                                   Some("custom")}
          THEN [result |-> ResultError("Unknown credential type: "
                                       \o PyStr(credential_type)),
                events |-> <<>>]
        ELSE [result |->
                 IF "raised" \in DOMAIN asked.result
                   THEN ResultError("Error requesting credential: " \o ExcText)
                 ELSE IF asked.result.cancelled
                   THEN ResultError("User cancelled the credential request")
                 ELSE ResultOutput(asked.result.value),
              events |-> asked.events]

\* -------------------------------- the handlers and prompts on their own

\* The pages of the CAPTCHA flow: none, one without a marker, pages with the
\* reCAPTCHA v3 script and a render parameter, with the parameter alone, with
\* the script and no key, and a Turnstile page.
FlowPages ==
    { None, Some("<p>hello</p>"),
      Some("<script src=\"https://www.google.com/recaptcha/api.js?render=SITEKEY123\">"),
      Some("render=SITEKEY123"),
      Some("recaptcha/api.js?render="),
      Some("<div class='cf-turnstile' data-sitekey='kT'>") }

FlowUrls == {"https://example.com/login", "https://www.amazon.com/ap/signin"}

\* The image of the CAPTCHA alone.
CroppedImage == "CROP"

\* The inputs of the credential tool: every credential type, one the tool
\* does not know, none; with and without a service name and a message.
CredentialInputs ==
    {[credential_type |-> Some(t), service_name |-> Some("shop")] :
        t \in {"username", "password", "2fa", "custom", "pin"}}
    \cup {[credential_type |-> Some("custom"), service_name |-> Some("shop"),
           custom_message |-> m] : m \in {None, Some(""), Some("Your PIN")}}
    \cup {[credential_type |-> Some("password")], [service_name |-> None],
          [credential_type |-> None, service_name |-> Some("shop")]}

\* The calls of the agent's handlers, of prompt_captcha and of the
\* credential tool; captcha_solver tells whether the agent has a solver.
HumanCalls ==
    {[op |-> "_handle_captcha", captcha_solver |-> c, website_url |-> u,
      page_html |-> h, screenshot_base64 |-> sh] :
        c \in BOOLEAN, u \in FlowUrls, h \in FlowPages, sh \in Screenshots}
    \cup {[op |-> "prompt_captcha", screenshot_base64 |-> sh,
           captcha_image_base64 |-> ci] :
            sh \in Screenshots, ci \in {None, Some(""), Some(CroppedImage)}}
    \cup {[op |-> "_handle_credential_request", credential_type |-> t,
           service_name |-> n] :
            t \in {"username", "password", "2fa", "custom"}, n \in {"", "shop"}}
    \cup {[op |-> "CredentialTool.execute", kwargs |-> k] : k \in CredentialInputs}

InitHuman ==
    /\ AtRest
    /\ call_args \in {Some(c) : c \in HumanCalls}
    /\ call_result = None
    /\ solve_calls = <<>>

\* The call returns (or raises) r.result after doing r.events: what it
\* printed is on the console.
Returns(r) ==
    /\ call_result' = Some(r.result)
    /\ trace' = r.events
    /\ console' = LET printed == SelectSeq(r.events, LAMBDA e : e.ev = "print")
                  IN  [i \in 1..Len(printed) |-> printed[i].text]
    /\ solve_calls' =
          LET attempts == SelectSeq(r.events, LAMBDA e : e.ev = "detect_and_solve")
          IN  IF attempts = <<>> THEN <<>> ELSE attempts[1].calls
    /\ UNCHANGED <<mode, messages, pc, max_iterations, iteration, assistant_content,
                   block_index, tool_results, action_desc, screenshot, returned,
                   raised, runs, call_args>>

HandleCaptchaCall(vendor, viewer, answer) ==
    /\ Pending("_handle_captcha")
    /\ Returns(handle_captcha(call_args[1].captcha_solver, call_args[1].website_url,
                              call_args[1].page_html, call_args[1].screenshot_base64,
                              vendor, viewer, answer))

PromptCaptchaCall(viewer, answer) ==
    /\ Pending("prompt_captcha")
    /\ Returns(prompt_captcha(call_args[1].screenshot_base64,
                              call_args[1].captcha_image_base64, viewer, answer))

HandleCredentialCall(answer) ==
    /\ Pending("_handle_credential_request")
    /\ Returns(handle_credential_request(call_args[1].credential_type,
                                         call_args[1].service_name, answer))

CredentialExecuteCall(answer) ==
    /\ Pending("CredentialTool.execute")
    /\ Returns(credential_execute(call_args[1].kwargs, answer))

NextHuman ==
    \/ \E vendor \in VendorOutcomes, viewer \in ViewerOutcomes, answer \in Answers :
          HandleCaptchaCall(vendor, viewer, answer)
    \/ \E viewer \in ViewerOutcomes, answer \in Answers :
          PromptCaptchaCall(viewer, answer)
    \/ \E answer \in Answers : HandleCredentialCall(answer)
    \/ \E answer \in Answers : CredentialExecuteCall(answer)

SpecHuman == InitHuman /\ [][NextHuman]_vars

\* ------------------------------------------------- the tools on their own

\* Coordinates of a click: null, lists that are no pair, and pairs inside
\* the display, on each of its edges and beyond them.
ClickCoordinates ==
    {None, Some(<<>>), Some(<<5>>), Some(<<1, 2, 3>>)}
        \cup {Some(<<x, y>>) :
                x \in {-1, 0, display_width - 1, display_width, 2000},
                y \in {-1, 0, display_height - 1, display_height}}

\* Calls of the two tools' execute: every action of the desktop tool, with
\* good and bad parameters, and the shell tool's commands.
ToolCalls ==
    {[op |-> "execute", tool_name |-> "computer", tool_input |-> i] :
        i \in {[action |-> Some(a)] :
                 a \in {"screenshot", "left_click", "left_click_drag", "type", "key",
                        "mouse_move", "scroll", "wait", "left_mouse_down",
                        "left_mouse_up", "hold_key", "zoom"}}
              \cup {ClickAt(3, 4).input, ClickAt(2000, 4).input, TypeText("pw").input,
                    PressKey("Return").input,
                    [action |-> Some("right_click"), coordinate |-> Some(<<3, 4>>)],
                    [action |-> Some("mouse_move"), coordinate |-> Some(<<3, 4>>)],
                    [action |-> Some("left_click_drag"),
                     start_coordinate |-> Some(<<1, 2>>),
                     end_coordinate |-> Some(<<3, 4>>)]}
              \cup {[action |-> a, coordinate |-> c] :
                      a \in ClickActions, c \in ClickCoordinates}}
    \cup {[op |-> "execute", tool_name |-> "bash", tool_input |-> i] :
            i \in {RunCommand("ls").input, RunCommand("").input, RunNull.input,
                   RestartShell.input}}

InitTools ==
    /\ AtRest
    /\ call_args \in {Some(c) : c \in ToolCalls}
    /\ call_result = None
    /\ solve_calls = <<>>

\* tool.execute(**tool_input) is called; the subprocess it may start does
\* what `outcome` says. The call returns a ToolResult or does not return.
ToolCall(outcome) ==
    /\ Pending("execute")
    /\ outcome \in BackendOutcomes(call_args[1].tool_name) \cup {"timeout"}
    /\ call_result' = Some(tool_execute(call_args[1].tool_name,
                                        call_args[1].tool_input, outcome))
    /\ trace' = <<[ev |-> "subprocess", outcome |-> outcome,
                    click |-> IF call_args[1].tool_name = "computer"
                                   /\ Get(call_args[1].tool_input, "action", "screenshot")
                                         \in ClickActions
                                THEN click_commands(
                                        call_args[1].tool_input.action,
                                        GetOrNone(call_args[1].tool_input, "coordinate"))
                              ELSE <<>>]>>
    /\ UNCHANGED <<mode, messages, pc, max_iterations, iteration, assistant_content,
                   block_index, tool_results, action_desc, screenshot, returned,
                   raised, runs, console, call_args, solve_calls>>

NextTools == \E outcome \in Outcomes : ToolCall(outcome)

SpecTools == InitTools /\ [][NextTools]_vars

\* ------------------------------------------------------------------ claims

\* The tool_use blocks of a content list, in order.
ToolUses(content) == SelectSeq(content, LAMBDA b : b.type = "tool_use")

IdsOf(blocks) == [i \in 1..Len(blocks) |-> blocks[i].id]
ResultIdsOf(blocks) == [i \in 1..Len(blocks) |-> blocks[i].tool_use_id]

\* Every tool_result block of the run so far: those of the history's user
\* turns, then those collected for the turn in progress.
RECURSIVE ResultsFrom(_)
ResultsFrom(k) ==
    IF k > Len(messages) THEN tool_results
    ELSE (IF messages[k].role = "user" THEN messages[k].content ELSE <<>>)
            \o ResultsFrom(k + 1)

AllResults == ResultsFrom(2)

\* The tool_result blocks answering the tool_use block of an event.
ResultsFor(e) ==
    SelectSeq(AllResults, LAMBDA r : r.tool_use_id = ToolUseId(e.turn, e.block))

CancelledBlock(e) ==
    [type |-> "tool_result", tool_use_id |-> ToolUseId(e.turn, e.block),
     content |-> [kind |-> "str", value |-> "Action cancelled by user"],
     is_error |-> TRUE]

\* The assistant turns of the history, in order.
AssistantTurns == SelectSeq(messages, LAMBDA m : m.role = "assistant")

\* The block of the history an event is about: iteration t appended the
\* (t+1)-th assistant turn.
assistant_content_at(e) == AssistantTurns[e.turn + 1].content[e.block]

SameBlock(e, f) == e.turn = f.turn /\ e.block = f.block

\* run is not in the middle of a turn's blocks.
BetweenTurns == pc \notin {"block", "screenshot", "prompt", "execute"}

\* The run was ended by a top-level interrupt.
TopLevelInterrupt == \E k \in 1..Len(trace) : trace[k].ev = "sigint"

\* C1: every assistant turn of the history that holds tool_use blocks is
\* followed at once by a user turn whose tool_result blocks carry the same ids,
\* as many and in the same order (a turn whose blocks are still being
\* processed, or during which the process was interrupted, excepted).
C1_EveryToolUseAnswered ==
    \A i \in 1..Len(messages) :
        ( /\ messages[i].role = "assistant"
          /\ ToolUses(messages[i].content) # <<>>
          /\ (i < Len(messages) \/ (BetweenTurns /\ ~TopLevelInterrupt)) )
        => /\ i < Len(messages)
           /\ messages[i + 1].role = "user"
           /\ ResultIdsOf(messages[i + 1].content) = IdsOf(ToolUses(messages[i].content))

\* C2: a call the human declined at the gate has exactly the result
\* "Action cancelled by user", error-flagged, and is never dispatched to its
\* tool; and a tool is dispatched only straight after the gate let the call
\* pass or the human confirmed it.
C2_DeclineCancels ==
    \A k \in 1..Len(trace) :
        /\ trace[k].ev = "declined" =>
              /\ ResultsFor(trace[k]) = <<CancelledBlock(trace[k])>>
              /\ \A j \in 1..Len(trace) :
                    ~(trace[j].ev = "execute" /\ SameBlock(trace[j], trace[k]))
        /\ trace[k].ev = "execute" =>
              /\ k > 1
              /\ trace[k - 1].ev \in {"gate_pass", "confirmed"}
              /\ SameBlock(trace[k - 1], trace[k])
              /\ trace[k].tool = assistant_content_at(trace[k]).name
              /\ trace[k].input = assistant_content_at(trace[k]).input

\* A declined call whose run went on and returned.
C2_Witness ==
    /\ pc = "returned"
    /\ \E k \in 1..Len(trace) : trace[k].ev = "declined"

\* An event that ends the processing of its block with a result.
Finishing(e) == e.ev \in {"execute", "declined", "unknown"}

\* Event e is of an earlier iteration than f, or of the same iteration and of
\* no later block.
NotAfter(e, f) == e.turn < f.turn \/ (e.turn = f.turn /\ e.block <= f.block)

\* C3: within a turn the tool_use blocks are processed one at a time in the
\* order of the reply: nothing is done for a block before the block
\* processed before it has its result, and the results are collected, and
\* appended to the next user turn, in the order of their tool_use blocks.
C3_BlocksInOrder ==
    /\ \A k \in 1..(Len(trace) - 1) :
          /\ NotAfter(trace[k], trace[k + 1])
          /\ (trace[k].block > 0 /\ ~SameBlock(trace[k], trace[k + 1]))
                => Finishing(trace[k])
    /\ ~BetweenTurns =>
          ResultIdsOf(tool_results)
            = IdsOf(ToolUses(SubSeq(assistant_content, 1, block_index - 1)))
    /\ \A i \in 2..Len(messages) :
          messages[i].role = "user" =>
              ResultIdsOf(messages[i].content) = IdsOf(ToolUses(messages[i - 1].content))

\* A user turn with the results of two executed tool calls.
C3_Witness ==
    /\ Len(messages) >= 3
    /\ messages[3].role = "user"
    /\ Len(messages[3].content) = 2
    /\ Cardinality({k \in 1..Len(trace) : trace[k].ev = "execute"}) >= 2

\* C4: no failure at the level of a tool call ends the run: whatever the
\* input of a tool_use block naming a registered tool, no exception raised
\* while the block is processed leaves run.
C4_ToolFailureNeverAborts ==
    ~(pc = "raised" /\ raised \in {Some("TypeError"), Some("IndexError")})

LastEvent == trace[Len(trace)]

\* C5: a model call that fails with an API error ends the run at once: the
\* step leaves the history as it was and returns the error, and nothing
\* follows it in that run, neither a model call nor a tool execution.
C5_ApiErrorIsFatal ==
    [][ /\ (trace' # trace /\ trace' # <<>> /\ trace'[Len(trace')].ev = "api_error")
            => /\ messages' = messages
               /\ pc' = "returned"
               /\ returned' = Some("API error: " \o ExcText)
        /\ (trace # <<>> /\ LastEvent.ev = "api_error")
            => runs' = runs + 1 ]_vars

\* A run ended by an API error after a turn with tool calls.
C5_Witness ==
    /\ pc = "returned"
    /\ trace # <<>>
    /\ LastEvent.ev = "api_error"
    /\ Len(messages) >= 3

\* The model calls of the run so far, failed ones included.
ModelCalls ==
    Cardinality({k \in 1..Len(trace) : trace[k].ev \in {"model_call", "api_error"}})

\* The model has signalled completion in this run.
Completed ==
    \E k \in 1..Len(trace) : trace[k].ev = "model_call" /\ trace[k].stop = "end_turn"

ApiFailed == \E k \in 1..Len(trace) : trace[k].ev = "api_error"

\* C6: a run makes at most max_iterations model calls; one in which the
\* model never signals completion, no API error occurs and the process is
\* not interrupted ends after exactly max_iterations model calls by
\* returning the sentinel.
C6_ExactlyMaxIterations ==
    /\ ModelCalls <= max_iterations
    /\ (pc \in {"returned", "raised"} /\ ~Completed /\ ~ApiFailed
            /\ ~TopLevelInterrupt)
          => /\ ModelCalls = max_iterations
             /\ pc = "returned"
             /\ returned = Some(Sentinel)

\* The texts of the first n blocks, joined in order.
RECURSIVE JoinTexts(_, _)
JoinTexts(content, n) ==
    IF n = 0 THEN ""
    ELSE JoinTexts(content, n - 1)
            \o (IF content[n].type = "text" THEN content[n].text ELSE "")

\* C7: when the model's reply stops with end_turn, run returns the texts of
\* that reply's Text blocks joined in their order, and nothing follows the
\* model call: no tool is executed for the turn and no further call is made.
C7_EndTurnReturnsText ==
    \A k \in 1..Len(trace) :
        (trace[k].ev = "model_call" /\ trace[k].stop = "end_turn")
        => /\ k = Len(trace)
           /\ pc = "returned"
           /\ messages[Len(messages)].role = "assistant"
           /\ returned = Some(JoinTexts(messages[Len(messages)].content,
                                        Len(messages[Len(messages)].content)))

\* A completed run whose final turn has two Text blocks around a Thinking
\* block, after a turn with tool calls.
C7_Witness ==
    /\ pc = "returned"
    /\ Completed
    /\ returned = Some("Done: ok")
    /\ Len(messages) >= 4

\* C8: a tool_use block whose name matches no registered tool gets the
\* error-flagged result "Unknown tool: <name>" under its own id, and the loop
\* goes on with the block after it.
C8_UnknownToolResult ==
    [][ ( /\ pc = "block"
          /\ block_index <= Len(assistant_content)
          /\ Block.type = "tool_use"
          /\ Block.name \notin {"computer", "bash"} )
        => /\ tool_results' =
                tool_results \o
                  <<[type |-> "tool_result", tool_use_id |-> Block.id,
                     content |-> [kind |-> "str",
                                  value |-> "Unknown tool: " \o Block.name],
                     is_error |-> TRUE]>>
           /\ pc' = "block"
           /\ block_index' = block_index + 1
           /\ assistant_content' = assistant_content
           /\ messages' = messages ]_vars

\* An unknown tool's result in the history, with the block after it executed
\* and the next model call made.
C8_Witness ==
    \E k \in 1..Len(trace) :
        /\ trace[k].ev = "unknown"
        /\ \E j \in (k + 1)..Len(trace) :
              trace[j].ev = "execute" /\ trace[j].turn = trace[k].turn
        /\ \E j \in (k + 1)..Len(trace) : trace[j].ev = "model_call"
        /\ ResultsFor(trace[k]) # <<>>
        /\ ResultsFor(trace[k])[1].content.value = "Unknown tool: credential"

\* C9: an interrupt of the confirmation prompt counts as a decline: the call
\* gets the result "Action cancelled by user", is not dispatched, and no
\* exception leaves the gate, so that the run goes on.
C9_InterruptIsDecline ==
    \A k \in 1..Len(trace) :
        trace[k].ev = "interrupted"
        => /\ pc # "raised"
           /\ ResultsFor(trace[k]) = <<CancelledBlock(trace[k])>>

\* The fixed set of sensitive keywords.
SensitiveSet ==
    {"login", "sign in", "signin", "password", "credential", "payment",
     "purchase", "buy", "checkout", "credit card", "bank", "transfer", "submit",
     "confirm", "delete", "remove", "unsubscribe", "cancel"}

\* The lower-cased description is some text, the keyword, some text.
HasKeyword(description) ==
    LET lowered == Lower(description)
    IN  \E kw \in SensitiveSet :
          \E n \in 0..Len(lowered) :
              /\ n + Len(kw) <= Len(lowered)
              /\ lowered = SubSeq(lowered, 1, n) \o kw
                             \o SubSeq(lowered, n + Len(kw) + 1, Len(lowered))

\* C10: asked about a description, the gate answers true in mode
\* always_confirm, false in mode minimal, and in mode sensitive_only true
\* exactly when the lower-cased description contains a keyword of the set.
C10_GateDecision ==
    pc \in {"screenshot", "execute"}
    => ( (pc = "screenshot")
         <=> CASE mode = "always_confirm" -> TRUE
               [] mode = "minimal" -> FALSE
               [] OTHER -> HasKeyword(action_desc) )

\* The gate asked, in mode sensitive_only, about a description that holds a
\* keyword only once its capitals are lowered.
C10_Witness ==
    /\ mode = "sensitive_only"
    /\ pc = "screenshot"
    /\ action_desc = "BUy "

\* The number of mask characters in a string.
MaskCount(s) == Cardinality({i \in 1..Len(s) : SubSeq(s, i, i) = "*"})

\* The string without its mask characters.
RECURSIVE StripMask(_)
StripMask(s) ==
    IF Len(s) = 0 THEN ""
    ELSE (IF Head(s) = "*" THEN "" ELSE Head(s)) \o StripMask(Tail(s))

\* The text of the type action whose description was asked for, if it has one.
DescribedText == GetOrNone(call_args[1].tool_input, "text")

\* C11: the descriptor of a type action whose text has N characters holds
\* exactly N mask characters, and what it holds besides them is the fixed
\* label, whatever the text: no character of the text is copied into it.
C11_TypedTextMasked ==
    (call_result # None /\ call_args[1].op = "_describe_action"
        /\ DescribedText # None)
    => /\ "desc" \in DOMAIN call_result[1]
       /\ MaskCount(call_result[1].desc) = Len(DescribedText[1])
       /\ StripMask(call_result[1].desc) \in {"Type text", "Type text: "}

\* The descriptor of a three-character text that holds a letter of the label
\* and a mask character of its own.
C11_Witness ==
    /\ call_result = Some([desc |-> "Type text: ***"])
    /\ DescribedText = Some("T*p")

\* The tool_use blocks of the history's assistant turns.
RequestedBlocks ==
    {b \in UNION {{m.content[i] : i \in 1..Len(m.content)} :
                    m \in {messages[j] : j \in 2..Len(messages)}} :
        "type" \in DOMAIN b /\ b.type = "tool_use"}

\* The texts the model asked to have typed in this run.
TypedTexts ==
    {b.input.text[1] :
        b \in {c \in RequestedBlocks :
                  /\ c.name = "computer"
                  /\ GetOrNone(c.input, "action") = Some("type")
                  /\ Truthy(GetOrNone(c.input, "text"))}}

\* C12: no text the model asks to have typed shows in what the run writes to
\* the terminal, nor in the description of the action.
C12_SecretsNeverShown ==
    \A t \in TypedTexts :
        /\ \A k \in 1..Len(console) : ~Contains(console[k], t)
        /\ ~Contains(action_desc, t)

\* A field of a ToolResult is set: it holds a non-empty string.
IsSet(field) == field # None /\ field[1] # ""

\* The value is the list of a text part, if `text` says so, and an image part.
IsParts(v, text, image) ==
    /\ v.kind = "list"
    /\ Len(v.value) = (IF text = None THEN 1 ELSE 2)
    /\ text # None => v.value[1] = [type |-> "text", text |-> text[1]]
    /\ v.value[Len(v.value)].type = "image"
    /\ v.value[Len(v.value)].source.data = image

IsString(v, text) == v.kind = "str" /\ v.value = text

\* C13 as stated: an error result serializes to its error string whatever
\* its other fields, an output-only result to its output as a plain string,
\* and every other result to a list of parts: text then image when both are
\* set, the image alone when only the image is set.
C13_ErrorStringOrParts ==
    (call_result # None /\ call_args[1].op = "to_api_result") =>
        LET r == call_args[1].result
            v == call_result[1]
        IN  IF r.error # None THEN IsString(v, r.error[1])
            ELSE IF IsSet(r.output) /\ ~IsSet(r.base64_image)
              THEN IsString(v, r.output[1])
            ELSE IsParts(v, IF IsSet(r.output) THEN r.output ELSE None,
                         r.base64_image[1])

\* C13, amended: an error result serializes to its error string, or to
\* "An error occurred" when that string is empty, whatever its other fields;
\* without an error, a result with an image to the list of its text part, if
\* it has output, then its image part; a result with output only to the
\* output as a plain string; a result with nothing set to the plain string
\* "Action completed successfully.".
C13_SerializedShape ==
    (call_result # None /\ call_args[1].op = "to_api_result") =>
        LET r == call_args[1].result
            v == call_result[1]
        IN  IF r.error # None
              THEN IsString(v, IF r.error[1] # "" THEN r.error[1]
                               ELSE "An error occurred")
            ELSE IF IsSet(r.base64_image)
              THEN IsParts(v, IF IsSet(r.output) THEN r.output ELSE None,
                           r.base64_image[1])
            ELSE IF IsSet(r.output) THEN IsString(v, r.output[1])
            ELSE IsString(v, "Action completed successfully.")

\* A result with output and image and no error, serialized to two parts.
C13_Witness ==
    /\ call_result # None
    /\ call_args[1].op = "to_api_result"
    /\ call_args[1].result = [output |-> Some("a"), error |-> None,
                               base64_image |-> Some("bc")]
    /\ Len(call_result[1].value) = 2

IsPrefix(a, b) == Len(a) <= Len(b) /\ SubSeq(b, 1, Len(a)) = a

\* run is inside _execute_tool, or about to enter it for the current block.
InExecuteTool ==
    \/ pc \in {"screenshot", "prompt", "execute"}
    \/ pc = "block" /\ block_index <= Len(assistant_content)

\* C14: within a run the history only grows at its end, one message at a
\* time: every step of the run leaves the messages it found in place and
\* unchanged, and no step of the gate or of a tool adds one.
C14_HistoryAppendOnly ==
    [][ runs' = runs
        => /\ IsPrefix(messages, messages')
           /\ Len(messages') <= Len(messages) + 1
           /\ InExecuteTool => messages' = messages ]_vars

\* A run that has appended two assistant turns and the results between them.
C14_Witness ==
    /\ Len(messages) >= 4
    /\ messages[3].role = "user"
    /\ messages[4].role = "assistant"

\* detect_and_solve has been called and has returned.
Detected == call_result # None /\ call_args[1].op = "detect_and_solve"

\* The page of the call holds the marker, in whatever case.
HasMarker(marker) ==
    /\ call_args[1].page_html # None
    /\ Contains(Lower(call_args[1].page_html[1]), marker)

\* The site key the page's render parameter / site-key attribute gives.
RenderKeyOf == IF call_args[1].page_html = None THEN None
               ELSE render_key(call_args[1].page_html[1])
SiteKeyOf == IF call_args[1].page_html = None THEN None
             ELSE site_key(call_args[1].page_html[1])

V3Marker == HasMarker("recaptcha/api.js?render=")
V2Marker == HasMarker("g-recaptcha") \/ HasMarker("recaptcha")
TurnstileMarker == HasMarker("turnstile") \/ HasMarker("cf-turnstile")

\* The conditions of the chain's typed steps: Amazon's marker or an Amazon
\* URL; for the others the marker together with an extractable site key.
AmazonIndicated ==
    HasMarker("awswaf") \/ Contains(Lower(call_args[1].website_url), "amazon")
V3Match == V3Marker /\ RenderKeyOf # None
V2Match == V2Marker /\ SiteKeyOf # None
TurnstileMatch == TurnstileMarker /\ SiteKeyOf # None

ScreenshotAvailable ==
    call_args[1].screenshot_base64 # None /\ call_args[1].screenshot_base64[1] # ""

\* The operation the call invoked, "none" if it invoked none.
Outcome == IF solve_calls = <<>> THEN "none" ELSE solve_calls[1].op

\* The end of the chain: image-to-text with a screenshot, nothing without.
ImageOrNone == IF ScreenshotAvailable THEN "solve_image_captcha" ELSE "none"

NotDetected ==
    [success |-> FALSE, solution |-> None,
     error |-> Some("Could not detect CAPTCHA type"), captcha_type |-> None]

\* C15: detect_and_solve invokes at most one solve_* operation, the first of
\* Amazon-WAF, reCAPTCHA v3, reCAPTCHA v2, Turnstile whose condition matches,
\* else image-to-text, and returns that operation's result as it is,
\* failed or not.
C15_FirstMatchWins ==
    Detected =>
        /\ Len(solve_calls) <= 1
        /\ Outcome = (IF AmazonIndicated THEN "solve_amazon_waf"
                      ELSE IF V3Match THEN "solve_recaptcha_v3"
                      ELSE IF V2Match THEN "solve_recaptcha_v2"
                      ELSE IF TurnstileMatch THEN "solve_turnstile"
                      ELSE ImageOrNone)
        /\ solve_calls # <<>> => call_result[1] = solve_calls[1].result

C17_AmazonFirst ==
    (Detected /\ AmazonIndicated)
    => /\ Len(solve_calls) = 1
       /\ solve_calls[1].op = "solve_amazon_waf"
       /\ solve_calls[1].request # None
       /\ solve_calls[1].request[1].websiteKey = ""
       /\ call_result[1].captcha_type = Some("amazon_waf")

\* C18: a reCAPTCHA v3, reCAPTCHA v2 or Turnstile marker whose site key
\* cannot be extracted does not end the detection: the call returns what the
\* checks after that step give, in their order, down to image-to-text or
\* "Could not detect CAPTCHA type".
C18_FallThrough ==
    (Detected /\ ~AmazonIndicated)
    => /\ (V3Marker /\ RenderKeyOf = None)
            => Outcome = (IF V2Match THEN "solve_recaptcha_v2"
                          ELSE IF TurnstileMatch THEN "solve_turnstile"
                          ELSE ImageOrNone)
       /\ (~V3Match /\ (V2Marker \/ TurnstileMarker) /\ SiteKeyOf = None)
            => Outcome = ImageOrNone
       /\ "success" \in DOMAIN call_result[1]
       /\ Outcome = "none" => call_result[1] = NotDetected
       /\ Outcome # "none" => call_result[1] = solve_calls[1].result

\* A page whose reCAPTCHA v3 marker has no site key, solved as reCAPTCHA v2
\* with the key of its site-key attribute.
C18_Witness ==
    /\ Detected
    /\ call_args[1].page_html
          = Some("recaptcha/api.js?render=&x cf-turnstile data-sitekey='kT'")
    /\ Outcome = "solve_recaptcha_v2"
    /\ solve_calls[1].request[1].websiteKey = "kT"

\* C19: when no typed step matches, a call with a screenshot submits it to
\* image-to-text and returns that result; a call without one returns
\* {success: false, error: "Could not detect CAPTCHA type"} and sends the
\* vendor nothing.
C19_ImageOrNotDetected ==
    (Detected /\ ~AmazonIndicated /\ ~V3Match /\ ~V2Match /\ ~TurnstileMatch)
    => IF ScreenshotAvailable
         THEN /\ Len(solve_calls) = 1
              /\ solve_calls[1].op = "solve_image_captcha"
              /\ solve_calls[1].request # None
              /\ solve_calls[1].request[1].body = call_args[1].screenshot_base64[1]
              /\ call_result[1] = solve_calls[1].result
       ELSE /\ solve_calls = <<>>
            /\ call_result[1] = NotDetected

\* A page with markers and no site key, and no screenshot: not detected.
C19_Witness ==
    /\ Detected
    /\ call_args[1].page_html = Some("g-recaptcha cf-turnstile")
    /\ call_args[1].screenshot_base64 = Some("")
    /\ call_result[1].error = Some("Could not detect CAPTCHA type")

\* The CaptchaType of a solve_* operation.
OwnType(op) ==
    CASE op = "solve_amazon_waf" -> "amazon_waf"
      [] op = "solve_recaptcha_v2" -> "recaptcha_v2"
      [] op = "solve_recaptcha_v3" -> "recaptcha_v3"
      [] op = "solve_turnstile" -> "turnstile"
      [] op = "solve_image_captcha" -> "image_to_text"

\* C20: whatever the vendor call does, a solve_* operation returns a
\* CaptchaResult, and one with success = false carries a non-empty error and
\* the operation's own type.
C20_SolveIsTotal ==
    \A k \in 1..Len(solve_calls) :
        LET r == solve_calls[k].result
        IN  /\ DOMAIN r = {"success", "solution", "error", "captcha_type"}
            /\ r.success \in BOOLEAN
            /\ ~r.success => /\ r.error # None
                             /\ r.error[1] # ""
                             /\ r.captcha_type = Some(OwnType(solve_calls[k].op))

\* Turnstile called on its own with a vendor that raises, and the image
\* operation called with the path of a file that does not exist.
C20_Witness ==
    /\ solve_calls # <<>>
    /\ \/ /\ call_args[1].op = "solve_turnstile"
          /\ solve_calls[1].result.error = Some("Turnstile solving failed: X")
       \/ /\ call_args[1].op = "solve_image_captcha"
          /\ solve_calls[1].request = None
          /\ solve_calls[1].result.error = Some("Image CAPTCHA solving failed: X")

\* The call of the handler specification has returned (or raised).
Called(op) == call_args # None /\ call_args[1].op = op /\ call_result # None

\* Where in the trace the call did something of this kind.
Positions(kind) == {i \in 1..Len(trace) : trace[i].ev = kind}

\* The automated attempt of the call failed: no success, or no solution.
AttemptFailed ==
    \E i \in Positions("detect_and_solve") :
        ~(trace[i].result.success /\ Truthy(trace[i].result.solution))

\* The image the prompt displayed, None if it displayed none.
Displayed ==
    IF Positions("display_image") = {} THEN None
    ELSE Some(trace[CHOOSE i \in Positions("display_image") : TRUE].image)

\* C21: in _handle_captcha an agent with a solver calls detect_and_solve
\* once, before any manual prompt, and prompts the human exactly when that
\* attempt failed; an agent without a solver makes no attempt and prompts the
\* human; and prompt_captcha displays the cropped CAPTCHA image when it has
\* one, the screenshot only when it has no cropped image.
C21_SolverThenManual ==
    /\ Called("_handle_captcha") =>
          /\ Cardinality(Positions("read")) <= 1
          /\ \A i \in Positions("read") : trace[i].prompt = "prompt_captcha"
          /\ IF call_args[1].captcha_solver
               THEN /\ Cardinality(Positions("detect_and_solve")) = 1
                    /\ \A i \in Positions("detect_and_solve"), j \in Positions("read") :
                          i < j
                    /\ Positions("read") # {} <=> AttemptFailed
             ELSE /\ Positions("detect_and_solve") = {}
                  /\ solve_calls = <<>>
                  /\ Positions("read") # {}
    /\ Called("prompt_captcha") =>
          /\ Cardinality(Positions("display_image")) <= 1
          /\ \A i \in Positions("display_image"), j \in Positions("read") : i < j
          /\ Displayed =
                IF Truthy(call_args[1].captcha_image_base64)
                  THEN call_args[1].captcha_image_base64
                ELSE IF Truthy(call_args[1].screenshot_base64)
                  THEN call_args[1].screenshot_base64
                ELSE None

\* A solver that failed, followed by the manual prompt.
C21_Witness ==
    /\ Called("_handle_captcha")
    /\ call_args[1].captcha_solver
    /\ AttemptFailed
    /\ Positions("read") # {}
    /\ call_result = Some(Some("s3"))

\* The page of the call has the reCAPTCHA v3 script with the render
\* parameter SITEKEY123.
ScenarioCPage ==
    /\ Called("_handle_captcha")
    /\ Truthy(call_args[1].page_html)
    /\ Contains(call_args[1].page_html[1], "render=SITEKEY123")

\* The solver was asked for reCAPTCHA v3 with the site key SITEKEY123.
V3Attempted ==
    /\ Len(solve_calls) = 1
    /\ solve_calls[1].op = "solve_recaptcha_v3"
    /\ solve_calls[1].request =
          Some([type |-> "RecaptchaV3ProxylessRequest",
                websiteUrl |-> call_args[1].website_url, websiteKey |-> "SITEKEY123"])

\* The manual prompt came after the attempt and displayed the screenshot of
\* the call if it has one, the only image _handle_captcha passes on.
ManualWithBestImage ==
    /\ \E j \in Positions("read") :
          /\ trace[j].prompt = "prompt_captcha"
          /\ \A i \in Positions("detect_and_solve") : i < j
    /\ Displayed = IF Truthy(call_args[1].screenshot_base64)
                     THEN call_args[1].screenshot_base64
                   ELSE None

\* C22 as stated: with render=SITEKEY123 in the page and no solver
\* configured, reCAPTCHA v3 is attempted with that key, and a failed
\* attempt is followed by the manual prompt.
C22_ScenarioNoSolver ==
    (ScenarioCPage /\ ~call_args[1].captcha_solver) =>
        /\ V3Attempted
        /\ AttemptFailed => ManualWithBestImage

\* C22 (amended): with a solver configured, a page that has the reCAPTCHA v3
\* script marker with render=SITEKEY123 and no Amazon marker, and a URL
\* without "amazon", reCAPTCHA v3 is attempted with the site key SITEKEY123;
\* a failed attempt is followed by the manual prompt with the screenshot, and
\* a solved one returns the solution without a prompt.
C22_ScenarioWithSolver ==
    (/\ ScenarioCPage
     /\ call_args[1].captcha_solver
     /\ Contains(Lower(call_args[1].page_html[1]), "recaptcha/api.js?render=")
     /\ ~Contains(Lower(call_args[1].page_html[1]), "awswaf")
     /\ ~Contains(Lower(call_args[1].website_url), "amazon")) =>
        /\ V3Attempted
        /\ AttemptFailed => ManualWithBestImage
        /\ ~AttemptFailed => Positions("read") = {} /\ call_result = Some(Some(Token))

\* The vendor failed on the v3 request and the human solved the CAPTCHA from
\* the screenshot.
C22_Witness ==
    /\ ScenarioCPage
    /\ call_args[1].captcha_solver
    /\ V3Attempted
    /\ AttemptFailed
    /\ ManualWithBestImage
    /\ Displayed = Some(ImageData)
    /\ call_result = Some(Some("s3"))

\* What the human did at the prompt of the call, None if it read nothing.
Answered ==
    IF Positions("read") = {} THEN None
    ELSE Some(trace[CHOOSE i \in Positions("read") : TRUE].answer)

\* The credential type a call of the credential tool or of the agent's
\* handler asks for.
RequestedType ==
    IF call_args[1].op = "CredentialTool.execute"
      THEN Get(call_args[1].kwargs, "credential_type", "username")
    ELSE Some(call_args[1].credential_type)

CredentialTypes == {Some("username"), Some("password"), Some("2fa"), Some("custom")}

\* C23: for each of the four credential types, a cancelled prompt makes the
\* credential tool return the error result "User cancelled the credential
\* request" and the agent's handler return None, while an empty answer makes
\* the tool return a result that is no error and the handler the empty string.
C23_CancelledIsNotEmpty ==
    /\ (Called("CredentialTool.execute") /\ RequestedType \in CredentialTypes) =>
          /\ Answered # None
          /\ Answered = Some([interrupt |-> TRUE]) =>
                /\ is_error(call_result[1])
                /\ call_result[1].error = Some("User cancelled the credential request")
          /\ Answered = Some([line |-> ""]) =>
                /\ ~is_error(call_result[1])
                /\ call_result[1].output = Some("")
    /\ (Called("_handle_credential_request") /\ RequestedType \in CredentialTypes) =>
          /\ Answered # None
          /\ Answered = Some([interrupt |-> TRUE]) => call_result[1] = None
          /\ Answered = Some([line |-> ""]) => call_result[1] = Some("")

\* A cancelled request for a custom secret through the handler.
C23_Witness ==
    /\ Called("_handle_credential_request")
    /\ RequestedType = Some("custom")
    /\ Answered = Some([interrupt |-> TRUE])
    /\ call_result = Some(None)

\* C24: a credential request of type password or custom reads the human's
\* input with getpass.getpass, which does not echo, never with Prompt.ask.
C24_SecretsNotEchoed ==
    ((Called("CredentialTool.execute") \/ Called("_handle_credential_request"))
        /\ RequestedType \in {Some("password"), Some("custom")}) =>
        \A i \in Positions("read") : trace[i].reader = "getpass.getpass"

\* The result of the call depends on a subprocess.
WaitsForSubprocess ==
    tool_execute(call_args[1].tool_name, call_args[1].tool_input, "ok")
        # tool_execute(call_args[1].tool_name, call_args[1].tool_input, "fail")

\* C25: every execution of a tool returns a ToolResult, and when the
\* subprocess it waits for does not finish in time the result is a timeout
\* error.
C25_SubprocessTimeout ==
    Called("execute") =>
        /\ call_result[1] # NeverReturns
        /\ (WaitsForSubprocess /\ trace[1].outcome = "timeout") =>
              /\ is_error(call_result[1])
              /\ Contains(call_result[1].error[1], "timed out")

\* C26: once the process is interrupted while run is in progress, in a model
\* call or in a tool execution, the run is over (the interrupt is the last
\* thing in its trace: no model call, no tool execution follows), and
\* run_agent reports "Task cancelled by user" and lets no exception out.
C26_InterruptCancelsRun ==
    \A k \in 1..Len(trace) :
        trace[k].ev \in {"sigint", "interrupted"}
        => /\ k = Len(trace)
           /\ pc = "raised"
           /\ run_agent(returned, raised).printed = <<"Task cancelled by user">>
           /\ run_agent(returned, raised).raised = None

\* The events of the trace that are about block b of iteration t.
EventsAt(kinds, t, b) ==
    {k \in 1..Len(trace) : trace[k].ev \in kinds /\ trace[k].turn = t /\ trace[k].block = b}

\* The blocks of iteration t have all been processed, or the run is over and
\* was not ended by a top-level interrupt.
TurnOver(t) == t < iteration \/ (BetweenTurns /\ ~TopLevelInterrupt)

\* In Minimal mode the run neither prompts nor takes a context screenshot.
MinimalNeverPrompts ==
    mode = "minimal" =>
        \A k \in 1..Len(trace) :
            trace[k].ev \notin {"gate_prompt", "context_screenshot", "confirmed",
                                "declined", "interrupted"}

\* In Minimal mode a tool_use block naming a registered tool is executed at
\* most once, and once when its turn is over.
MinimalExecutesOnce ==
    mode = "minimal" =>
        \A t \in 1..Len(AssistantTurns) :
            \A b \in 1..Len(AssistantTurns[t].content) :
                LET block == AssistantTurns[t].content[b]
                    runs_of == EventsAt({"execute"}, t - 1, b)
                IN  (block.type = "tool_use" /\ block.name \in {"computer", "bash"})
                    => /\ Cardinality(runs_of) <= 1
                       /\ \A k \in runs_of :
                             trace[k].tool = block.name /\ trace[k].input = block.input
                       /\ TurnOver(t - 1) => Cardinality(runs_of) = 1

\* In AlwaysConfirm mode an execution comes straight after the human
\* confirmed that same call.
AlwaysConfirmAsksFirst ==
    mode = "always_confirm" =>
        \A k \in 1..Len(trace) :
            trace[k].ev = "execute"
            => /\ k > 1
               /\ trace[k - 1].ev = "confirmed"
               /\ SameBlock(trace[k - 1], trace[k])
               /\ trace[k].input = assistant_content_at(trace[k]).input

\* C27: in Minimal mode no run prompts or takes a context screenshot, and
\* every tool_use block naming a registered tool is executed exactly once; in
\* AlwaysConfirm mode every execution of a tool comes after the confirmation
\* prompt for that call, which the human accepted.
C27_ModesDecide ==
    /\ MinimalNeverPrompts
    /\ MinimalExecutesOnce
    /\ AlwaysConfirmAsksFirst

\* The gate's prompt has been answered, or interrupted, at event k.
PromptEvents == {"confirmed", "declined", "interrupted"}

\* The gate asked for confirmation of the block of event k.
GateRequired(k) ==
    EventsAt({"gate_prompt"}, trace[k].turn, trace[k].block) # {}

\* C28: whenever the gate requires confirmation, exactly one context
\* screenshot is captured before the prompt is shown, the prompt comes before
\* any execution of the requested tool, and the capture is made whether the
\* human then confirms or declines; after the capture the prompt is shown
\* whether or not the capture gave an image.
C28_ContextBeforePrompt ==
    \A k \in 1..Len(trace) :
        /\ trace[k].ev = "gate_prompt"
           => /\ Cardinality(EventsAt({"context_screenshot"}, trace[k].turn,
                                      trace[k].block)) <= 1
              /\ IF k = Len(trace) THEN pc = "screenshot"
                 ELSE /\ trace[k + 1].ev \in {"context_screenshot", "sigint"}
                      /\ SameBlock(trace[k], trace[k + 1])
        /\ trace[k].ev = "context_screenshot"
           => /\ k > 1
              /\ trace[k - 1].ev = "gate_prompt"
              /\ trace[k].tool = "computer"
              /\ trace[k].input = [action |-> Some("screenshot")]
              /\ IF k = Len(trace) THEN pc = "prompt"
                 ELSE /\ trace[k + 1].ev \in PromptEvents
                      /\ SameBlock(trace[k], trace[k + 1])
        /\ trace[k].ev \in PromptEvents
           => /\ k > 2
              /\ trace[k - 1].ev = "context_screenshot"
              /\ SameBlock(trace[k - 1], trace[k])
              /\ Cardinality(EventsAt({"context_screenshot"}, trace[k].turn,
                                      trace[k].block)) = 1
              /\ EventsAt({"execute"}, trace[k].turn, trace[k].block)
                    \subseteq (k + 1)..Len(trace)
        /\ (trace[k].ev = "execute" /\ GateRequired(k))
           => /\ k > 1
              /\ trace[k - 1].ev = "confirmed"
              /\ SameBlock(trace[k - 1], trace[k])

\* One run in which a prompt was declined and another confirmed and the tool
\* executed, and the prompt is now shown after a capture that gave no image.
C28_Witness ==
    /\ pc = "prompt"
    /\ screenshot = None
    /\ trace[Len(trace)].ev = "context_screenshot"
    /\ \E k \in 1..Len(trace) : trace[k].ev = "declined"
    /\ \E k \in 2..Len(trace) : trace[k].ev = "execute" /\ trace[k - 1].ev = "confirmed"

\* C29: in the tool_result block built from a ToolResult, is_error is true
\* exactly when the result's error field is set, and the content of such a
\* block is a plain string, never a list of parts.
C29_IsErrorIffErrorSet ==
    (call_result # None /\ call_args[1].op = "tool_result_block") =>
        LET r == call_args[1].result
            b == call_result[1]
        IN  /\ b.type = "tool_result"
            /\ b.is_error <=> r.error # None
            /\ b.content = to_api_result(r)
            /\ r.error # None => b.content.kind = "str"

\* The block of a result with an empty error string and an image: an error
\* block whose content is a string.
C29_Witness ==
    /\ call_result # None
    /\ call_args[1].op = "tool_result_block"
    /\ call_args[1].result = [output |-> Some("a"), error |-> Some(""),
                               base64_image |-> Some("bc")]
    /\ call_result[1].is_error
    /\ call_result[1].content = [kind |-> "str", value |-> "An error occurred"]

\* The command whose description was asked for: "" when the input has none.
DescribedCommand == Get(call_args[1].tool_input, "command", "")

\* C30: the descriptor of a shell command shows the command unchanged when it
\* has at most 50 characters, and otherwise its first 50 characters followed
\* by an ellipsis; no character of the command from position 51 on is in the
\* descriptor.
C30_CommandPreview ==
    (call_result # None /\ call_args[1].op = "_describe_action"
        /\ call_args[1].tool_name = "bash" /\ DescribedCommand # None)
    => LET cmd == DescribedCommand[1]
       IN  /\ "desc" \in DOMAIN call_result[1]
           /\ Len(cmd) <= 50 => call_result[1].desc = "Run command: " \o cmd
           /\ Len(cmd) > 50
              => call_result[1].desc = "Run command: " \o SubSeq(cmd, 1, 50) \o "..."
           /\ \A i \in 51..Len(cmd) :
                 ~Contains(call_result[1].desc, SubSeq(cmd, i, i))

\* The descriptor of a command of 52 characters: 50 of them and the ellipsis.
C30_Witness ==
    /\ call_result # None
    /\ call_args[1].tool_name = "bash"
    /\ DescribedCommand = Some(CommandHead \o "XY")
    /\ call_result[1] = [desc |-> "Run command: " \o CommandHead \o "..."]
    /\ Len(CommandHead) = 50

\* C31: after any prefix of a run the history starts with a user message and
\* its roles alternate strictly: no two messages next to each other have the
\* same role, also after an assistant turn that does not stop the run and
\* holds no tool_use block.
C31_RolesAlternate ==
    messages # <<>> =>
        /\ messages[1].role = "user"
        /\ \A i \in 1..(Len(messages) - 1) : messages[i].role # messages[i + 1].role

\* The tool call of the reply whose dispatch is followed.
DispatchedBlock == messages[2].content[2]

\* Something of this kind happened in the run.
Happened(kinds) == \E k \in 1..Len(trace) : trace[k].ev \in kinds

\* The run asked the human, or took the context screenshot to do so.
Prompted == Happened({"gate_prompt", "context_screenshot"} \cup PromptEvents)

\* The tool was executed with the model's input, straight after the gate let
\* the call pass.
ExecutedUnprompted ==
    \E k \in 2..Len(trace) :
        /\ trace[k].ev = "execute"
        /\ trace[k].tool = DispatchedBlock.name
        /\ trace[k].input = DispatchedBlock.input
        /\ trace[k - 1].ev = "gate_pass"

\* The model asked for a shell command, and the command is a string.
ShellCommandAsked ==
    /\ DispatchedBlock.name = "bash"
    /\ "command" \in DOMAIN DispatchedBlock.input
    /\ DispatchedBlock.input.command # None

\* C32: in mode sensitive_only the gate's decision for a shell command
\* depends on the first 50 characters of the command only: it asks exactly
\* when these hold a sensitive keyword, so a command whose only keyword lies
\* beyond character 50 is executed without a context screenshot or a prompt.
C32_GateSeesPreviewOnly ==
    (mode = "sensitive_only" /\ ShellCommandAsked)
    => LET shown == SubSeq(DispatchedBlock.input.command[1], 1,
                           IF Len(DispatchedBlock.input.command[1]) < 50
                             THEN Len(DispatchedBlock.input.command[1]) ELSE 50)
       IN  /\ Happened({"gate_prompt"}) => HasKeyword(shown)
           /\ Happened({"gate_pass"}) => ~HasKeyword(shown)
           /\ ~HasKeyword(shown)
              => /\ ~Prompted
                 /\ Happened({"execute"}) => ExecutedUnprompted
                 /\ pc = "returned" => ExecutedUnprompted

\* A command with "delete" from character 51 on has been executed, and the
\* run is over, without a prompt.
C32_Witness ==
    /\ mode = "sensitive_only"
    /\ pc = "returned"
    /\ DispatchedBlock = [RunCommand(CommandHead \o "delete -f") EXCEPT !.id = ToolUseId(0, 2)]
    /\ HasKeyword(DispatchedBlock.input.command[1])
    /\ ExecutedUnprompted
    /\ ~Prompted

\* The model asked for a screenshot, a left click or a type action.
PlainActionAsked ==
    /\ DispatchedBlock.name = "computer"
    /\ "action" \in DOMAIN DispatchedBlock.input
    /\ DispatchedBlock.input.action
          \in {Some("screenshot"), Some("left_click"), Some("type")}

\* C33: in mode sensitive_only a screenshot, a left click at integer
\* coordinates and a type action with any text never lead to a confirmation
\* prompt: the gate lets them pass, their descriptor holding no sensitive
\* keyword whatever the input holds.
C33_PlainActionsPass ==
    (mode = "sensitive_only" /\ PlainActionAsked)
    => /\ ~Prompted
       /\ pc = "execute" => ~HasKeyword(action_desc)
       /\ Happened({"execute"}) => ExecutedUnprompted

\* The text "my Password" has been typed without a prompt: the descriptor
\* showed the mask only.
C33_Witness ==
    /\ mode = "sensitive_only"
    /\ pc = "returned"
    /\ DispatchedBlock.input = TypeText("my Password").input
    /\ ExecutedUnprompted
    /\ ~Prompted

\* The tool_result block that answers the dispatched call as an unknown tool.
UnknownToolAnswer ==
    [type |-> "tool_result", tool_use_id |-> DispatchedBlock.id,
     content |-> [kind |-> "str", value |-> "Unknown tool: " \o DispatchedBlock.name],
     is_error |-> TRUE]

\* C34: the agent's registry is {computer, bash} throughout the run: a
\* tool_use block of any other name, "credential" included, is answered with
\* "Unknown tool: <name>" and nothing else is done for it, no tool, no
\* credential request and no prompt; a block named computer or bash is never
\* answered so.
C34_RegistryIsComputerAndBash ==
    IF DispatchedBlock.name \in {"computer", "bash"}
      THEN ~Happened({"unknown"})
    ELSE /\ \A k \in 1..Len(trace) : trace[k].ev \in {"model_call", "unknown"}
         /\ \A k \in 1..Len(console) :
               /\ ~Contains(console[k], "Please enter")
               /\ console[k] \notin {"Action Confirmation", "Proceed with this action?"}
         /\ Happened({"unknown"})
            => \/ tool_results = <<UnknownToolAnswer>>
               \/ /\ Len(messages) = 3
                  /\ messages[3] = [role |-> "user", content |-> <<UnknownToolAnswer>>]
         /\ pc = "returned" => Happened({"unknown"}) /\ Len(messages) = 3

\* A call of "credential" for a password has been answered as an unknown tool
\* and the run went on to its end.
C34_Witness ==
    /\ pc = "returned"
    /\ DispatchedBlock.name = "credential"
    /\ "credential_type" \in DOMAIN DispatchedBlock.input
    /\ DispatchedBlock.input.credential_type = Some("password")
    /\ messages[3].content[1].content.value = "Unknown tool: credential"
    /\ messages[3].content[1].is_error

\* C35: the tool is looked up before the gate is asked: in every mode,
\* always_confirm included, a tool_use block whose name is not registered
\* leads to no context screenshot and no confirmation prompt; the gate is
\* not asked about it at all.
C35_LookupBeforeGate ==
    DispatchedBlock.name \notin {"computer", "bash"}
    => /\ ~Prompted
       /\ ~Happened({"gate_pass", "describe_raised"})
       /\ pc \notin {"screenshot", "prompt", "execute"}
       /\ screenshot = None
       /\ action_desc = ""

\* In mode always_confirm a call of the unregistered name "delete" has been
\* answered, and no prompt was shown.
C35_Witness ==
    /\ mode = "always_confirm"
    /\ DispatchedBlock.name = "delete"
    /\ Happened({"unknown"})
    /\ pc = "returned"
    /\ ~Prompted

\* The automated attempt of the call gave a result with success set and with
\* this solution.
SucceededWith(solutions) ==
    \E i \in Positions("detect_and_solve") :
        trace[i].result.success /\ trace[i].result.solution \in solutions

\* The manual prompt was reached, and the human interrupted it.
ManualCancelled ==
    \E i \in Positions("read") :
        trace[i].prompt = "prompt_captcha" /\ "interrupt" \in DOMAIN trace[i].answer

\* C36: _handle_captcha takes an automated result for solved only when it
\* has success set and a solution that is not empty, and then returns that
\* solution; after a successful result with an empty or no solution it goes
\* on to the manual prompt; and it returns None exactly when the manual
\* prompt was reached and cancelled.
C36_SolvedNeedsSolution ==
    Called("_handle_captcha") =>
        /\ SucceededWith({None, Some("")}) => Positions("read") # {}
        /\ Positions("read") = {}
           => /\ \E i \in Positions("detect_and_solve") :
                    /\ trace[i].result.success
                    /\ trace[i].result.solution \notin {None, Some("")}
                    /\ call_result[1] = trace[i].result.solution
        /\ call_result[1] = None <=> ManualCancelled

\* The solver reported success with an empty solution, the human was asked
\* and cancelled, and the flow returned None.
C36_Witness ==
    /\ Called("_handle_captcha")
    /\ SucceededWith({Some("")})
    /\ ManualCancelled
    /\ call_result[1] = None

\* The replies the model has given in this run.
RepliesSoFar == Cardinality({k \in 1..Len(trace) : trace[k].ev = "model_call"})

\* C37: every call of run starts from a history of exactly one user message,
\* which holds that call's task: the first model call of a run is sent that
\* message alone, and at no time does the history hold a message of an
\* earlier run: its first message is this run's task, no other message is
\* a task, and it has no more messages than this run's replies and their
\* results account for.
C37_FreshHistoryPerRun ==
    runs > 0 =>
        /\ messages # <<>>
        /\ messages[1] = [role |-> "user", content |-> "task " \o IntStr(runs)]
        /\ (pc = "call" /\ iteration = 0) => Len(messages) = 1
        /\ Len(messages) <= 1 + 2 * RepliesSoFar
        /\ \A i \in 2..Len(messages) :
              \/ messages[i].role = "assistant"
              \/ /\ messages[i].role = "user"
                 /\ messages[i].content # <<>>
                 /\ \A j \in 1..Len(messages[i].content) :
                       messages[i].content[j].type = "tool_result"

\* The second run on the agent has had a reply and its results, and its
\* history is its task and these two messages.
C37_Witness ==
    /\ runs = 2
    /\ Len(messages) = 3
    /\ messages[1].content = "task 2"
    /\ messages[3].role = "user"

\* The call is a click, of one of the five kinds.
ClickCalled ==
    /\ Called("execute")
    /\ call_args[1].tool_name = "computer"
    /\ "action" \in DOMAIN call_args[1].tool_input
    /\ call_args[1].tool_input.action
          \in {Some("left_click"), Some("right_click"), Some("middle_click"),
               Some("double_click"), Some("triple_click")}

\* The click has no coordinate, one that is no pair, or one outside the
\* display of 1024 by 768.
UnusableCoordinate ==
    \/ "coordinate" \notin DOMAIN call_args[1].tool_input
    \/ call_args[1].tool_input.coordinate = None
    \/ Len(call_args[1].tool_input.coordinate[1]) # 2
    \/ LET x == call_args[1].tool_input.coordinate[1][1]
           y == call_args[1].tool_input.coordinate[1][2]
       IN  x < 0 \/ x >= 1024 \/ y < 0 \/ y >= 768

\* C38: a click of any of the five kinds whose coordinate is missing, is no
\* pair or lies outside 0 <= x < display_width, 0 <= y < display_height
\* returns an error result, and no command reaches the desktop.
C38_BadClickIsRefused ==
    (ClickCalled /\ UnusableCoordinate)
    => /\ call_result[1] # NeverReturns
       /\ call_result[1].error # None
       /\ call_result[1].output = None
       /\ trace[1].click = <<>>

\* A right click at x = display_width has been refused whatever the desktop
\* would have done.
C38_Witness ==
    /\ ClickCalled
    /\ call_args[1].tool_input = [action |-> Some("right_click"),
                                   coordinate |-> Some(<<1024, 0>>)]
    /\ trace[1].outcome = "ok"
    /\ trace[1].click = <<>>
    /\ call_result[1].error
          = Some("Coordinates (1024, 0) outside display bounds (1024x768)")

\* C39: to_api_result never returns an empty string or an empty list: a
\* result with no error, no output and no image serializes to the text
\* "Action completed successfully.", and one whose error is the empty string
\* to "An error occurred", its block being flagged as an error all the same.
C39_NeverEmpty ==
    call_result # None =>
        LET r == call_args[1].result
            v == IF call_args[1].op = "to_api_result" THEN call_result[1]
                 ELSE call_result[1].content
        IN  /\ Len(v.value) > 0
            /\ v.kind = "list"
               => \A i \in 1..Len(v.value) :
                     \/ v.value[i].type = "text" /\ Len(v.value[i].text) > 0
                     \/ v.value[i].type = "image" /\ Len(v.value[i].source.data) > 0
            /\ r = [output |-> None, error |-> None, base64_image |-> None]
               => v = [kind |-> "str", value |-> "Action completed successfully."]
            /\ r.error = Some("")
               => /\ v = [kind |-> "str", value |-> "An error occurred"]
                  /\ call_args[1].op = "tool_result_block" => call_result[1].is_error

\* A result with nothing set has been serialized to the fixed text.
C39_Witness ==
    /\ call_result # None
    /\ call_args[1].op = "to_api_result"
    /\ call_args[1].result = [output |-> None, error |-> None, base64_image |-> None]
    /\ call_result[1] = [kind |-> "str", value |-> "Action completed successfully."]

=============================================================================
